---- MODULE Spec2Model ----
(***************************************************************************)
(* Model of the drum and piano samplers of supriya's scripts/ directory:   *)
(* velocity-layer selection, tick-to-time conversion, MIDI / MIDICSV       *)
(* parsing, event normalisation, the piano sample lookup table, the note   *)
(* and pattern schedulers, kit loading and the wait for its buffers, the   *)
(* generative programs, realtime playback, the note mapping overrides,     *)
(* trigger, the euclidean patterns, and the tempo and the note walk of     *)
(* run_background_01.                                                      *)
(*                                                                         *)
(* Conventions.  Python lists are sequences (1-based here, 0-based in the  *)
(* source).  An optional value (x | None) is a sequence of length 0 or 1.  *)
(* Times the source keeps as float seconds are integers here: microseconds *)
(* in the tick converters and parsers, milliseconds in the event builder   *)
(* and the note scheduler; the inputs are chosen so that every division of *)
(* the source is exact.  schedule_pattern, which adds its times up one by  *)
(* one, keeps them as floats, rounded as the source rounds them.           *)
(***************************************************************************)
EXTENDS Integers, Sequences, FiniteSets

VARIABLES
    \* Instrument (drum_sampler.py:105-127)
    layers,         \* Instrument.layers: the velocity_hint of each layer, in catalog order
    rotation,       \* Instrument._rotation
    call,           \* the last choose_layer call: arguments, _rotation before it, layer returned
    streak,         \* layers returned by the trailing run of index-less calls with one velocity
    \* convert_ticks_to_seconds (drum_sampler.py:649-676)
    cv_events,          \* events: <<tick, note, velocity>> triples
    cv_tempos,          \* tempos: <<tick, microseconds per beat>> pairs
    cv_ticks_per_beat,  \* ticks_per_beat
    cv_result,          \* the list returned: <<microseconds, note, velocity>> triples
    cv_done,            \* the call has returned
    \* piano parse_midi_file / parse_midicsv_file (piano_sampler.py:550-651)
    pf_kind,            \* "mid" or "csv": the parser load_note_events picks
    pf_file,            \* the file: CSV rows, or the merged MIDI messages
    pf_rows,            \* csv: rows, the (tick, index, row) list walked; mid: the messages
    pf_pos,             \* position of the next row / message of the walk
    pf_ticks_per_beat,  \* ticks_per_beat (None until a Header row gives it)
    pf_tempo,           \* tempo, microseconds per beat
    pf_current_time,    \* current_time, microseconds
    pf_last_tick,       \* last_tick (csv only)
    pf_active,          \* active: (channel, note) -> open note-ons, oldest first
    pf_events,          \* events: the NoteEvent list built
    pf_status,          \* "start", "walking", "returned" or "raised"
    pf_prev,            \* active and events as they were before the last row / message
    \* drum parse_midicsv (drum_sampler.py:679-699)
    dc_file,            \* the rows of the file
    dc_pos,             \* position of the next row
    dc_ticks_per_beat,  \* ticks_per_beat
    dc_tempos,          \* tempos: <<tick, microseconds per beat>>
    dc_events,          \* events: <<tick, note, velocity>>
    dc_status,          \* "reading", "returned" or "raised"
    \* build_events_from_notes (drum_sampler.py:724-745)
    be_timed_events,    \* timed_events: <<milliseconds, note, velocity>>
    be_note_map,        \* note_map: note -> instrument name
    be_result,          \* the DrumEvent list returned
    be_done,            \* the call has returned
    \* piano lookup table (piano_sampler.py:154-197)
    lk_built,           \* build_lookup has run
    lk_indices,         \* indices: the sample index of each (dynamic, note)
    lk_pitches,         \* pitches: the semitone offset of each (dynamic, note)
    lk_max_dynamic,     \* max_dynamic
    lk_sel,             \* the last select_sample call: arguments, table position, result
    \* schedule_note_events (piano_sampler.py:663-756), times in milliseconds
    sn_events,          \* events: the NoteEvent list given
    sn_context,         \* "Score" (offline) or "Server" (realtime)
    sn_clock,           \* what time.time() returns now
    sn_start_time,      \* start_time
    sn_performance,     \* performance_: the PerformanceStyle in use
    sn_sorted_events,   \* sorted_events
    sn_base_time,       \* base_time
    sn_pos,             \* position in sorted_events of the next event placed
    sn_synth_calls,     \* the add_synth placements issued so far, in order
    sn_max_end_time,    \* max_end_time
    sn_status,          \* "start", "placing" or "returned"
    \* schedule_pattern (piano_sampler.py:204-245), times are floats, in seconds
    sp_context,         \* "Score" (offline) or "Server" (realtime)
    sp_clock,           \* what time.time() returns now, in milliseconds
    sp_start_time,      \* start_time
    sp_duration,        \* duration
    sp_notes,           \* notes, cycled
    sp_durs,            \* durs, cycled
    sp_dynamics,        \* dynamics, cycled
    sp_amps,            \* amps, cycled (percent)
    sp_rel,             \* rel
    sp_base_time,       \* base_time
    sp_current_time,    \* current_time
    sp_synth_calls,     \* the add_synth placements issued so far, in order
    sp_result,          \* the value returned, once returned
    sp_status,          \* "start", "placing" or "returned"
    \* load_kit and _wait_for_buffers_loaded (drum_sampler.py:568-646), times in milliseconds
    kit_context,        \* "Score", "Server" (a supriya.BaseServer) or "Other"
    kit_at,             \* at: <<>> for None, <<t>> for a time
    kit_catalog,        \* INSTRUMENTS: the number of layers of each instrument, in order
    kit_inst,           \* position of the loop over INSTRUMENTS
    kit_layer,          \* position of the loop over instrument.layers
    kit_pending,        \* pending: the <<instrument, layer>> pairs not yet allocated
    kit_layers,         \* layers: per instrument, its loaded layers with their buffers
    kit_instruments,    \* instruments: per instrument copied so far, its _rotation
    kit_batches,        \* per context.at() block entered, the buffers allocated in it
    kit_next_buffer,    \* the id the next add_buffer returns
    kit_clock,          \* what time.monotonic() returns now
    kit_deadline,       \* deadline
    kit_wait_pending,   \* pending of _wait_for_buffers_loaded
    kit_loaded,         \* server side: the buffers whose frame count is > 0
    kit_observed,       \* the buffers a query has reported with a frame count > 0
    kit_status,         \* "start", "batching", "loaded", "waiting", "returned", "timeout"
    \* the generative programs: piano run_background_01 (piano_sampler.py:1186-1443),
    \* piano run_ambient_01 (1446-1598), drum run_ambient_01 (drum_sampler.py:912-1139)
    gp_program,         \* which program runs
    gp_duration,        \* program_duration: <<>> for None, <<d>> for a limit
    gp_pc,              \* "start", "loading", "spawning", "loop", "finally", "exited"
    gp_server,          \* "none", "booted" or "quit"
    gp_exit,            \* why the program left: "none", "duration", "interrupt", "error"
    gp_clock,           \* what time.monotonic() returns now
    gp_start,           \* start
    gp_next_chord_change, \* next_chord_change
    gp_active_clouds,   \* active_clouds: the synths of the current chord
    gp_pending_free,    \* pending_free: (free_at, synths) of the faded chords
    gp_next_node,       \* the id of the next synth the server creates
    gp_nodes,           \* engine side: the grain-cloud synths neither freed nor released
    gp_turn,            \* how many times the loop body has been entered
    gp_voices,          \* per grain cloud ever spawned: what was sent to it, when
    \* play_events_realtime (drum_sampler.py:827-842), times in milliseconds
    rt_events,          \* events: the DrumEvent list given
    rt_clock,           \* what time.monotonic() returns now
    rt_start,           \* start
    rt_triggered,       \* the loaded.trigger calls made so far, in order
    rt_status,          \* "start", "playing", "tail", "leaving" (an exception is on its
                        \* way out of the try block), "quit" or "raised" (before the try)
    rt_exit,            \* "none", or the exception that left the function:
                        \* "error" or "interrupt" (KeyboardInterrupt)
    \* apply_mapping_overrides (drum_sampler.py:759-769)
    mo_given,           \* the base mapping as it was when the call was made
    mo_base,            \* base: the caller's dict, as it is now
    mo_overrides,       \* overrides: the items, each a string given by its pieces
    mo_result,          \* <<mapping>> once returned
    mo_status,          \* "start", "returned" or "raised" (ValueError)
    \* programs that load a kit and trigger it (drum_sampler.py:523-565, 772-842, 1328-1368)
    tk_program,         \* the function running
    tk_step,            \* its position in the steps of that function
    tk_trace,           \* the steps it has taken so far, in order
    tk_events,          \* events: the DrumEvent list given to build_score / play_events_realtime
    tk_index,           \* how many events, gestures or MIDI messages have been handled
    tk_callback,        \* midi_in.set_callback(callback) has been called
    tk_instruments,     \* kit.instruments: name -> the layers' velocity hints and _rotation
    tk_layers,          \* kit.layers: name -> the loaded layers with their buffers
    tk_synths,          \* the add_synth calls made, in order
    tk_call,            \* the last trigger call: arguments, the kit before it, how it ended
    tk_status,          \* running / returned / raised
    \* _euclidean_pattern and the rotation of its result (piano_sampler.py:969-977, 1287-1292)
    eu_pulses,          \* pulses
    eu_steps,           \* steps
    eu_returned,        \* the list _euclidean_pattern returned
    eu_pattern,         \* pattern, as the program holds it
    eu_shift,           \* shift: <<>> until rng.randrange has drawn it
    eu_status,          \* "start", "built" or "rotated"
    \* the tempo of run_background_01 (piano_sampler.py:1187-1189, 1281-1282, 1298,
    \* 1317-1321); intensity and tempi are floats
    tp_intensity,       \* intensity
    tp_tempo,           \* tempo
    tp_tempo_target,    \* tempo_target
    tp_clock,           \* time.monotonic() - start, in milliseconds
    tp_next_tempo_shift, \* next_tempo_shift - start, in milliseconds
    tp_turn,            \* how many times the loop body has run
    tp_prev,            \* tempo and tempo_target before the last turn, and whether it shifted
    tp_status,          \* "start", "loop" or "raised" (ValueError)
    \* the note walk of run_background_01 (piano_sampler.py:1238-1293, 1322-1335, 1379-1392)
    bg_intensity,           \* intensity, in percent
    bg_scale_notes,         \* scale_notes
    bg_chord_root_index,    \* chord_root_index
    bg_chord_notes,         \* chord_notes
    bg_last_note,           \* last_note
    bg_energy,              \* energy, in percent
    bg_pattern,             \* pattern
    bg_step_index,          \* step_index
    bg_turn,                \* how many times the loop body has run
    bg_status               \* "start", "loop", "refused" (ValueError of the intensity),
                            \* "too_few_notes" (RuntimeError) or "failed" (a lookup raised)

layerVars == <<layers, rotation, call, streak>>

convVars == <<cv_events, cv_tempos, cv_ticks_per_beat, cv_result, cv_done>>

pianoVars == <<pf_kind, pf_file, pf_rows, pf_pos, pf_ticks_per_beat, pf_tempo,
               pf_current_time, pf_last_tick, pf_active, pf_events, pf_status, pf_prev>>

drumCsvVars == <<dc_file, dc_pos, dc_ticks_per_beat, dc_tempos, dc_events, dc_status>>

buildVars == <<be_timed_events, be_note_map, be_result, be_done>>

lookupVars == <<lk_built, lk_indices, lk_pitches, lk_max_dynamic, lk_sel>>

schedVars == <<sn_events, sn_context, sn_clock, sn_start_time, sn_performance,
               sn_sorted_events, sn_base_time, sn_pos, sn_synth_calls, sn_max_end_time,
               sn_status>>

patternVars == <<sp_context, sp_clock, sp_start_time, sp_duration, sp_notes, sp_durs,
                 sp_dynamics, sp_amps, sp_rel,
                 sp_base_time, sp_current_time, sp_synth_calls, sp_result, sp_status>>

kitVars == <<kit_context, kit_at, kit_catalog, kit_inst, kit_layer, kit_pending, kit_layers,
             kit_instruments,
             kit_batches, kit_next_buffer, kit_clock, kit_deadline, kit_wait_pending,
             kit_loaded, kit_observed, kit_status>>

programVars == <<gp_program, gp_duration, gp_pc, gp_server, gp_exit, gp_clock, gp_start,
                 gp_next_chord_change, gp_active_clouds, gp_pending_free, gp_next_node,
                 gp_nodes, gp_turn, gp_voices>>

playVars == <<rt_events, rt_clock, rt_start, rt_triggered, rt_status, rt_exit>>

mappingVars == <<mo_given, mo_base, mo_overrides, mo_result, mo_status>>

triggerVars == <<tk_program, tk_step, tk_trace, tk_events, tk_index, tk_callback, tk_instruments,
                tk_layers, tk_synths, tk_call, tk_status>>

euclidVars == <<eu_pulses, eu_steps, eu_returned, eu_pattern, eu_shift, eu_status>>

tempoVars == <<tp_intensity, tp_tempo, tp_tempo_target, tp_clock, tp_next_tempo_shift,
               tp_turn, tp_prev, tp_status>>

backgroundVars ==
    <<bg_intensity, bg_scale_notes, bg_chord_root_index, bg_chord_notes, bg_last_note,
      bg_energy, bg_pattern, bg_step_index, bg_turn, bg_status>>

vars == <<layerVars, convVars, pianoVars, drumCsvVars, buildVars, lookupVars, schedVars, patternVars, kitVars, programVars, playVars, mappingVars, triggerVars, euclidVars, tempoVars, backgroundVars>>

\* what a step of this component leaves alone
notLayerVars ==
    <<convVars, pianoVars, drumCsvVars, buildVars, lookupVars, schedVars, patternVars, kitVars, programVars, playVars, mappingVars, triggerVars, euclidVars, tempoVars, backgroundVars>>

\* what a step of this component leaves alone
notConvVars ==
    <<layerVars, pianoVars, drumCsvVars, buildVars, lookupVars, schedVars, patternVars, kitVars, programVars, playVars, mappingVars, triggerVars, euclidVars, tempoVars, backgroundVars>>

\* what a step of this component leaves alone
notPianoVars ==
    <<layerVars, convVars, drumCsvVars, buildVars, lookupVars, schedVars, patternVars, kitVars, programVars, playVars, mappingVars, triggerVars, euclidVars, tempoVars, backgroundVars>>

\* what a step of this component leaves alone
notDrumCsvVars ==
    <<layerVars, convVars, pianoVars, buildVars, lookupVars, schedVars, patternVars, kitVars, programVars, playVars, mappingVars, triggerVars, euclidVars, tempoVars, backgroundVars>>

\* what a step of this component leaves alone
notBuildVars ==
    <<layerVars, convVars, pianoVars, drumCsvVars, lookupVars, schedVars, patternVars, kitVars, programVars, playVars, mappingVars, triggerVars, euclidVars, tempoVars, backgroundVars>>

\* what a step of this component leaves alone
notLookupVars ==
    <<layerVars, convVars, pianoVars, drumCsvVars, buildVars, schedVars, patternVars, kitVars, programVars, playVars, mappingVars, triggerVars, euclidVars, tempoVars, backgroundVars>>

\* what a step of this component leaves alone
notSchedVars ==
    <<layerVars, convVars, pianoVars, drumCsvVars, buildVars, lookupVars, patternVars, kitVars, programVars, playVars, mappingVars, triggerVars, euclidVars, tempoVars, backgroundVars>>

\* what a step of this component leaves alone
notPatternVars ==
    <<layerVars, convVars, pianoVars, drumCsvVars, buildVars, lookupVars, schedVars, kitVars, programVars, playVars, mappingVars, triggerVars, euclidVars, tempoVars, backgroundVars>>

\* what a step of this component leaves alone
notKitVars ==
    <<layerVars, convVars, pianoVars, drumCsvVars, buildVars, lookupVars, schedVars, patternVars, programVars, playVars, mappingVars, triggerVars, euclidVars, tempoVars, backgroundVars>>

\* what a step of this component leaves alone
notProgramVars ==
    <<layerVars, convVars, pianoVars, drumCsvVars, buildVars, lookupVars, schedVars, patternVars, kitVars, playVars, mappingVars, triggerVars, euclidVars, tempoVars, backgroundVars>>

\* what a step of this component leaves alone
notPlayVars ==
    <<layerVars, convVars, pianoVars, drumCsvVars, buildVars, lookupVars, schedVars, patternVars, kitVars, programVars, mappingVars, triggerVars, euclidVars, tempoVars, backgroundVars>>

\* what a step of this component leaves alone
notMappingVars ==
    <<layerVars, convVars, pianoVars, drumCsvVars, buildVars, lookupVars, schedVars, patternVars, kitVars, programVars, playVars, triggerVars, euclidVars, tempoVars, backgroundVars>>

\* what a step of this component leaves alone
notTriggerVars ==
    <<layerVars, convVars, pianoVars, drumCsvVars, buildVars, lookupVars, schedVars, patternVars, kitVars, programVars, playVars, mappingVars, euclidVars, tempoVars, backgroundVars>>

\* what a step of this component leaves alone
notEuclidVars ==
    <<layerVars, convVars, pianoVars, drumCsvVars, buildVars, lookupVars, schedVars, patternVars, kitVars, programVars, playVars, mappingVars, triggerVars, tempoVars, backgroundVars>>

\* what a step of this component leaves alone
notTempoVars ==
    <<layerVars, convVars, pianoVars, drumCsvVars, buildVars, lookupVars, schedVars, patternVars, kitVars, programVars, playVars, mappingVars, triggerVars, euclidVars, backgroundVars>>

\* what a step of this component leaves alone
notBackgroundVars ==
    <<layerVars, convVars, pianoVars, drumCsvVars, buildVars, lookupVars, schedVars, patternVars, kitVars, programVars, playVars, mappingVars, triggerVars, euclidVars, tempoVars>>


----------------------------------------------------------------------------
(* Shared helpers *)

Abs(x) == IF x < 0 THEN -x ELSE x

Min2(a, b) == IF a < b THEN a ELSE b

Max2(a, b) == IF a > b THEN a ELSE b

SeqsUpTo(S, n) == UNION {[1..k -> S] : k \in 0..n}

\* Lexicographic order on integer tuples of one length (Python's tuple order).
LexLess(a, b) ==
    \E i \in 1..Len(a) : a[i] < b[i] /\ \A j \in 1..(i - 1) : a[j] = b[j]

\* sorted(seq, key=...): keys[i] is the key tuple of seq[i].  The sort is
\* stable: elements with equal keys keep their input order.
SortedBy(seq, keys) ==
    LET n == Len(seq)
        Before(j, i) == LexLess(keys[j], keys[i]) \/ (keys[j] = keys[i] /\ j < i)
        Rank(i) == 1 + Cardinality({j \in 1..n : Before(j, i)})
    IN  [k \in 1..n |-> seq[CHOOSE i \in 1..n : Rank(i) = k]]

----------------------------------------------------------------------------
(* Instrument.choose_layer, drum_sampler.py:115-127 *)

MaxLayers == 3

HintChoices == {20, 50, 80}

VelocityChoices == {-5, 35, 50, 65, 200}

\* event_index: None, or an index as enumerate() gives it
EventIndexChoices == {<<>>, <<0>>, <<1>>, <<5>>}

InstrumentChoices == SeqsUpTo(HintChoices, MaxLayers) \ {<<>>}

\* target = max(1, min(velocity, 127))
ClampVelocity(velocity) == Max2(1, Min2(velocity, 127))

LayerDistanceSigned(hint, target) == hint - target

\* abs(layer.velocity_hint - target)
LayerDistance(hint, target) == Abs(hint - target)

\* ranked = sorted(self.layers, key=distance); a layer is its catalog position
Ranked(ls, target) ==
    SortedBy([i \in 1..Len(ls) |-> i],
             [i \in 1..Len(ls) |-> <<LayerDistance(ls[i], target)>>])

\* nearest = [layer for layer in ranked if distance == nearest_distance]
Nearest(ls, target) ==
    LET ranked == Ranked(ls, target)
        nearest_distance == LayerDistance(ls[ranked[1]], target)
        IsNearest(i) == LayerDistance(ls[i], target) = nearest_distance
    IN  SelectSeq(ranked, IsNearest)

TieBreakStuck(nearest, rot, event_index) ==
    IF Len(nearest) = 1 THEN [layer |-> nearest[1], rotation |-> rot]
    ELSE IF event_index # <<>>
         THEN [layer |-> nearest[(event_index[1] % Len(nearest)) + 1], rotation |-> rot]
         ELSE [layer |-> nearest[((rot + 1) % Len(nearest)) + 1], rotation |-> rot]

TieBreakIndexRotates(nearest, rot, event_index) ==
    IF Len(nearest) = 1 THEN [layer |-> nearest[1], rotation |-> rot]
    ELSE LET r == (rot + 1) % Len(nearest)
         IN  [layer |-> nearest[r + 1], rotation |-> r]

\* lines 122-127: the value returned and the value _rotation is left with
TieBreak(nearest, rot, event_index) ==
    IF Len(nearest) = 1 THEN [layer |-> nearest[1], rotation |-> rot]
    ELSE IF event_index # <<>>
         THEN [layer |-> nearest[(event_index[1] % Len(nearest)) + 1], rotation |-> rot]
         ELSE LET r == (rot + 1) % Len(nearest)
              IN  [layer |-> nearest[r + 1], rotation |-> r]

choose_layer(ls, rot, velocity, event_index) ==
    TieBreak(Nearest(ls, ClampVelocity(velocity)), rot, event_index)

NoCall == [velocity |-> 0, event_index |-> <<>>, layer |-> 0, rotation_before |-> 0]

LastN(s, n) == IF Len(s) <= n THEN s ELSE SubSeq(s, Len(s) - n + 1, Len(s))

LayerInit ==
    /\ layers \in InstrumentChoices
    /\ rotation = 0
    /\ call = NoCall
    /\ streak = <<>>

LayerIdle ==
    /\ layers = <<>>
    /\ rotation = 0
    /\ call = NoCall
    /\ streak = <<>>

\* One call instrument.choose_layer(velocity, event_index).
ChooseLayer(velocity, event_index) ==
    LET r == choose_layer(layers, rotation, velocity, event_index)
        continues == /\ call.layer # 0
                     /\ call.event_index = <<>>
                     /\ call.velocity = velocity
    IN  /\ rotation' = r.rotation
        /\ call' = [velocity |-> velocity, event_index |-> event_index,
                    layer |-> r.layer, rotation_before |-> rotation]
        /\ streak' = IF event_index # <<>> THEN <<>>
                     ELSE IF continues
                          THEN LastN(Append(streak, r.layer),
                                     Len(Nearest(layers, ClampVelocity(velocity))))
                     ELSE <<r.layer>>
        /\ UNCHANGED layers
    /\ UNCHANGED notLayerVars

LayerNext ==
    \E velocity \in VelocityChoices, event_index \in EventIndexChoices :
        ChooseLayer(velocity, event_index)

----------------------------------------------------------------------------
(* Claims on choose_layer *)

\* The tied layers as the specification describes them: the catalog positions
\* at minimal distance from the clamped velocity, in catalog order.
MinDistance(ls, t) ==
    CHOOSE d \in {Abs(ls[i] - t) : i \in 1..Len(ls)} :
        \A i \in 1..Len(ls) : d <= Abs(ls[i] - t)

TiedLayers(ls, t) == {i \in 1..Len(ls) : Abs(ls[i] - t) = MinDistance(ls, t)}

ClampedTo1_127(v) == IF v < 1 THEN 1 ELSE IF v > 127 THEN 127 ELSE v

\* The k-th (from 0) element of a set of catalog positions, in catalog order
KthOf(S, k) == CHOOSE i \in S : Cardinality({j \in S : j < i}) = k

\* C1: choose_layer returns a layer at minimal |velocity_hint - clamp(velocity)|
\* over all layers; when one layer alone attains the minimum it is the one
\* returned, for every event index and every value of the rotation counter.
C1_NearestLayer ==
    call.layer # 0 =>
        LET t == ClampedTo1_127(call.velocity)
        IN  /\ call.layer \in 1..Len(layers)
            /\ \A i \in 1..Len(layers) :
                   Abs(layers[call.layer] - t) <= Abs(layers[i] - t)
            /\ Cardinality(TiedLayers(layers, t)) = 1 =>
                   TiedLayers(layers, t) = {call.layer}

C1_Witness ==
    /\ call.layer # 0
    /\ Len(layers) = 3
    /\ call.velocity = 200
    /\ Cardinality(TiedLayers(layers, 127)) = 1
    /\ call.event_index = <<5>>
    /\ rotation = 2
    /\ call.layer = 2

\* C2: an index-less call on an n-way tie (n >= 2) sets the rotation counter
\* to (counter + 1) mod n, and the last min(k, n) results of k consecutive
\* index-less calls with that velocity are pairwise different tied layers.
C2_RoundRobin ==
    LET tied == TiedLayers(layers, ClampedTo1_127(call.velocity))
        n == Cardinality(tied)
    IN  (call.layer # 0 /\ call.event_index = <<>> /\ n >= 2) =>
            /\ rotation = (call.rotation_before + 1) % n
            /\ streak # <<>> /\ streak[Len(streak)] = call.layer
            /\ \A i \in 1..Len(streak) : streak[i] \in tied
            /\ \A i, j \in 1..Len(streak) : i # j => streak[i] # streak[j]

C2_Witness ==
    /\ Len(streak) = 3
    /\ Cardinality(TiedLayers(layers, ClampedTo1_127(call.velocity))) = 3
    /\ call.event_index = <<>>
    /\ call.layer # 0

\* C3: with an event index on a tie of n layers, choose_layer returns the
\* tied layer at catalog position (event_index mod n) whatever calls came
\* before, and leaves the rotation counter as it was.
C3_IndexedChoice ==
    LET tied == TiedLayers(layers, ClampedTo1_127(call.velocity))
        n == Cardinality(tied)
    IN  (call.layer # 0 /\ call.event_index # <<>> /\ n >= 2) =>
            /\ call.layer = KthOf(tied, call.event_index[1] % n)
            /\ rotation = call.rotation_before

C3_Witness ==
    /\ call.event_index = <<5>>
    /\ Cardinality(TiedLayers(layers, ClampedTo1_127(call.velocity))) = 3
    /\ call.rotation_before = 1
    /\ call.layer = 3

----------------------------------------------------------------------------
(* convert_ticks_to_seconds, drum_sampler.py:649-676 *)

MaxEvents == 2

MaxTempos == 2

MaxTickIndex == 2

\* the input ticks are multiples of half a beat at 480 ticks per beat
TickStep == 480 \div 2

DefaultTempo == 500000

TickChoices == {k * TickStep : k \in 0..MaxTickIndex}

TimedNoteChoices == {<<36, 100>>, <<38, 90>>}

TickEventChoices == {<<t, nv[1], nv[2]>> : t \in TickChoices, nv \in TimedNoteChoices}

TempoChoices == {<<t, us>> : t \in TickChoices, us \in {250000, DefaultTempo}}

TicksPerBeatChoices == {480}

\* tempo_map = sorted(tempos or [(0, 500_000)], key=lambda t: t[0])
TempoMap(tempos) ==
    LET given == IF tempos = <<>> THEN << <<0, DefaultTempo>> >> ELSE tempos
    IN  SortedBy(given, [i \in 1..Len(given) |-> <<given[i][1]>>])

\* lines 655-660: the tempo entries, then the event entries (value = the
\* 0-based input index), sorted by (tick, tempo entries first)
Combined(events, tempo_map) ==
    LET tempo_items == [i \in 1..Len(tempo_map) |->
                           [tick |-> tempo_map[i][1], kind |-> "tempo", value |-> tempo_map[i][2]]]
        event_items == [i \in 1..Len(events) |->
                           [tick |-> events[i][1], kind |-> "event", value |-> i - 1]]
        items == tempo_items \o event_items
    IN  SortedBy(items, [i \in 1..Len(items) |->
                            <<items[i].tick, IF items[i].kind = "tempo" THEN 0 ELSE 1>>])

WalkStepNoTickAdvance(st, item, ticks_per_beat) ==
    LET delta_ticks == item.tick - st.current_tick
        now == st.current_time + (delta_ticks * st.current_tempo) \div ticks_per_beat
    IN  IF item.kind = "tempo"
        THEN [st EXCEPT !.current_time = now, !.current_tempo = item.value]
        ELSE [st EXCEPT !.current_time = now, !.event_times[item.value + 1] = now]

\* lines 666-672: one iteration of the walk over combined
WalkStep(st, item, ticks_per_beat) ==
    LET delta_ticks == item.tick - st.current_tick
        now == st.current_time + (delta_ticks * st.current_tempo) \div ticks_per_beat
    IN  IF item.kind = "tempo"
        THEN [st EXCEPT !.current_time = now, !.current_tick = item.tick,
                        !.current_tempo = item.value]
        ELSE [st EXCEPT !.current_time = now, !.current_tick = item.tick,
                        !.event_times[item.value + 1] = now]

RECURSIVE Walk(_, _, _, _)
\* lines 665-672: the loop, from position k of combined
Walk(combined, k, st, ticks_per_beat) ==
    IF k > Len(combined) THEN st
    ELSE Walk(combined, k + 1, WalkStep(st, combined[k], ticks_per_beat), ticks_per_beat)

convert_ticks_to_seconds(events, tempos, ticks_per_beat) ==
    LET tempo_map == TempoMap(tempos)
        start == [current_tick |-> 0, current_time |-> 0,
                  current_tempo |-> tempo_map[1][2],
                  event_times |-> [i \in 1..Len(events) |-> 0]]
        final == Walk(Combined(events, tempo_map), 1, start, ticks_per_beat)
    IN  [i \in 1..Len(events) |-> <<final.event_times[i], events[i][2], events[i][3]>>]

ConvInit ==
    /\ cv_events \in SeqsUpTo(TickEventChoices, MaxEvents)
    /\ cv_tempos \in SeqsUpTo(TempoChoices, MaxTempos)
    /\ cv_ticks_per_beat \in TicksPerBeatChoices
    /\ cv_result = <<>>
    /\ cv_done = FALSE

ConvIdle ==
    /\ cv_events = <<>>
    /\ cv_tempos = <<>>
    /\ cv_ticks_per_beat = 0
    /\ cv_result = <<>>
    /\ cv_done = FALSE

\* One call convert_ticks_to_seconds(events, tempos, ticks_per_beat).
Convert ==
    /\ ~cv_done
    /\ cv_result' = convert_ticks_to_seconds(cv_events, cv_tempos, cv_ticks_per_beat)
    /\ cv_done' = TRUE
    /\ UNCHANGED <<cv_events, cv_tempos, cv_ticks_per_beat>>
    /\ UNCHANGED notConvVars

----------------------------------------------------------------------------
(* Claims on convert_ticks_to_seconds *)

\* The tempo in force on the tick interval that starts at tick k: that of the
\* last tempo entry at a tick <= k (of several at one tick, the last given),
\* and the 120 BPM default before the first entry.
TempoInForce(tempos, k) ==
    LET at == {i \in 1..Len(tempos) : tempos[i][1] <= k}
        IsLast(i) == \A j \in at : \/ tempos[j][1] < tempos[i][1]
                                   \/ (tempos[j][1] = tempos[i][1] /\ j <= i)
    IN  IF at = {} THEN DefaultTempo ELSE tempos[CHOOSE i \in at : IsLast(i)][2]

RECURSIVE AccumulatedTime(_, _, _)
\* Microseconds from tick 0 to tick T, interval by interval.
AccumulatedTime(tempos, tpb, T) ==
    IF T <= 0 THEN 0
    ELSE AccumulatedTime(tempos, tpb, T - TickStep)
             + (TickStep * TempoInForce(tempos, T - TickStep)) \div tpb

\* C4: a note at tick T is timed by the intervals before T, each at the tempo
\* in force in it; a tempo entry at tick T itself does not move a note at T.
C4_TempoBeforeNote ==
    cv_done =>
        \A i \in 1..Len(cv_events) :
            cv_result[i][1] = AccumulatedTime(cv_tempos, cv_ticks_per_beat, cv_events[i][1])

\* C5: one triple per input event, in input order, note and velocity
\* unchanged; tick_i <= tick_j implies time_i <= time_j.
C5_OrderPreserved ==
    cv_done =>
        /\ Len(cv_result) = Len(cv_events)
        /\ \A i \in 1..Len(cv_events) :
               /\ cv_result[i][2] = cv_events[i][2]
               /\ cv_result[i][3] = cv_events[i][3]
        /\ \A i, j \in 1..Len(cv_events) :
               cv_events[i][1] <= cv_events[j][1] => cv_result[i][1] <= cv_result[j][1]

C5_Witness ==
    /\ cv_done
    /\ Len(cv_events) = 2
    /\ cv_events[1][1] > cv_events[2][1]
    /\ cv_events[1][2] # cv_events[2][2]
    /\ cv_result[1][1] > cv_result[2][1]
    /\ Len(cv_tempos) = 2
    /\ cv_tempos[1][2] # cv_tempos[2][2]

----------------------------------------------------------------------------
(* Piano parsers, piano_sampler.py:550-651 *)

MaxRows == 3

\* A CSV row is [n, tick, type, args]: n fields in all; row[1] = tick,
\* row[2] = type and row[3 + k] = args[k + 1] where present.
CsvRow(tick, type, args) == [n |-> 3 + Len(args), tick |-> tick, type |-> type, args |-> args]

\* row[k] for k >= 3 is present
HasField(row, k) == k < row.n

\* int(row[k]) for k >= 3
Field(row, k) == row.args[k - 2]

PianoTickChoices == {0, 480}

PianoBodyChoices ==
    {CsvRow(t, "Tempo", <<250000>>) : t \in PianoTickChoices}
    \cup {CsvRow(t, "Note_on_c", <<0, 60, 64>>) : t \in PianoTickChoices}
    \cup {CsvRow(t, "Note_on_c", <<0, 60, 0>>) : t \in PianoTickChoices}
    \cup {CsvRow(t, "Note_off_c", <<0, 60, 0>>) : t \in PianoTickChoices}
    \cup {CsvRow(t, "Note_off_c", <<0, 62, 0>>) : t \in PianoTickChoices}

\* no Header row, a Header row, a Header row cut short before the division
PianoHeadChoices ==
    {<<>>, <<CsvRow(0, "Header", <<1, 1, 480>>)>>, <<CsvRow(0, "Header", <<1, 1>>)>>}

PianoCsvFiles ==
    {head \o body : head \in PianoHeadChoices, body \in SeqsUpTo(PianoBodyChoices, MaxRows)}

\* A MIDI message: time is the delta in ticks since the previous message.
MidiMessage(time, type, channel, note, velocity, tempo) ==
    [time |-> time, type |-> type, channel |-> channel, note |-> note,
     velocity |-> velocity, tempo |-> tempo]

MidiMessageChoices ==
    {MidiMessage(t, "set_tempo", 0, 0, 0, 250000) : t \in PianoTickChoices}
    \cup {MidiMessage(t, "note_on", 0, 60, 64, 0) : t \in PianoTickChoices}
    \cup {MidiMessage(t, "note_on", 0, 60, 0, 0) : t \in PianoTickChoices}
    \cup {MidiMessage(t, "note_off", 0, 60, 0, 0) : t \in PianoTickChoices}
    \cup {MidiMessage(t, "note_off", 0, 62, 0, 0) : t \in PianoTickChoices}

MidiFiles == SeqsUpTo(MidiMessageChoices, MaxRows)

MidiTicksPerBeat == 480

\* tempo = 500000, lines 558 and 610
PianoDefaultTempo == 500000

KeyChoices == {<<0, 60>>, <<0, 62>>}

NoOpenNotes == [key \in KeyChoices |-> <<>>]

\* lines 594-607: the rows kept, as (tick, index, row), in file order
RowsRead(file) ==
    LET Kept(i) == /\ file[i].n >= 2
                   /\ ~(file[i].type = "Header" /\ ~HasField(file[i], 5))
        idx == SelectSeq([i \in 1..Len(file) |-> i], Kept)
    IN  [k \in 1..Len(idx) |-> [tick |-> file[idx[k]].tick, index |-> idx[k] - 1,
                                row |-> file[idx[k]]]]

\* lines 602-606: ticks_per_beat after the read loop (None when no Header row set it)
HeaderDivision(file) ==
    LET hs == {i \in 1..Len(file) : /\ file[i].n >= 2
                                     /\ file[i].type = "Header"
                                     /\ HasField(file[i], 5)}
    IN  IF hs = {} THEN <<>>
        ELSE <<Field(file[CHOOSE i \in hs : \A j \in hs : j <= i], 5)>>

\* line 613: rows.sort(key=lambda item: (item[0], item[1]))
RowsSorted(rows) ==
    SortedBy(rows, [i \in 1..Len(rows) |-> <<rows[i].tick, rows[i].index>>])

PopNewest(stack) == <<stack[Len(stack)], SubSeq(stack, 1, Len(stack) - 1)>>

\* stack.pop(0): the entry taken and the stack left
PopOldest(stack) == <<Head(stack), Tail(stack)>>

\* lines 573-585 and 638-650: a note-off for key at time now
CloseNote(active, events, key, note, now) ==
    IF active[key] = <<>> THEN [active |-> active, events |-> events]
    ELSE LET popped == PopOldest(active[key])
             start_time == popped[1].time
         IN  [active |-> [active EXCEPT ![key] = popped[2]],
              events |-> Append(events, [start |-> start_time,
                                         duration |-> Max2(0, now - start_time),
                                         note |-> note,
                                         velocity |-> popped[1].velocity])]

\* lines 569-571 and 635: active.setdefault(key, []).append((current_time, velocity));
\* row is the position of the note-on in the walk
OpenNote(active, key, now, velocity, row) ==
    [active EXCEPT ![key] = Append(@, [time |-> now, velocity |-> velocity, row |-> row])]

PianoInit ==
    /\ pf_kind \in {"mid", "csv"}
    /\ pf_file \in IF pf_kind = "csv" THEN PianoCsvFiles ELSE MidiFiles
    /\ pf_rows = <<>>
    /\ pf_pos = 1
    /\ pf_ticks_per_beat = <<>>
    /\ pf_tempo = PianoDefaultTempo
    /\ pf_current_time = 0
    /\ pf_last_tick = 0
    /\ pf_active = NoOpenNotes
    /\ pf_events = <<>>
    /\ pf_status = "start"
    /\ pf_prev = [active |-> NoOpenNotes, events |-> <<>>]

PianoIdle ==
    /\ pf_kind = "none"
    /\ pf_file = <<>>
    /\ pf_rows = <<>>
    /\ pf_pos = 1
    /\ pf_ticks_per_beat = <<>>
    /\ pf_tempo = PianoDefaultTempo
    /\ pf_current_time = 0
    /\ pf_last_tick = 0
    /\ pf_active = NoOpenNotes
    /\ pf_events = <<>>
    /\ pf_status = "idle"
    /\ pf_prev = [active |-> NoOpenNotes, events |-> <<>>]

\* parse_midicsv_file lines 590-615: read the rows, find the division, sort
CsvOpen ==
    /\ pf_kind = "csv" /\ pf_status = "start"
    /\ pf_ticks_per_beat' = HeaderDivision(pf_file)
    /\ IF HeaderDivision(pf_file) = <<>>
       THEN pf_status' = "raised" /\ pf_rows' = RowsRead(pf_file)
       ELSE pf_status' = "walking" /\ pf_rows' = RowsSorted(RowsRead(pf_file))
    /\ UNCHANGED <<pf_kind, pf_file, pf_pos, pf_tempo, pf_current_time, pf_last_tick,
                   pf_active, pf_events, pf_prev>>
    /\ UNCHANGED notPianoVars

\* parse_midicsv_file lines 616-650: one row of the walk
CsvWalkRow ==
    /\ pf_kind = "csv" /\ pf_status = "walking" /\ pf_pos <= Len(pf_rows)
    /\ LET tick == pf_rows[pf_pos].tick
           row == pf_rows[pf_pos].row
           event == IF row.n > 2 THEN row.type ELSE ""
           now == IF tick > pf_last_tick
                  THEN pf_current_time
                       + ((tick - pf_last_tick) * pf_tempo) \div pf_ticks_per_beat[1]
                  ELSE pf_current_time
           is_note == event \in {"Note_on_c", "Note_off_c"} /\ HasField(row, 5)
           key == <<Field(row, 3), Field(row, 4)>>
           closed == CloseNote(pf_active, pf_events, key, Field(row, 4), now)
       IN  /\ pf_current_time' = now
           /\ pf_last_tick' = IF tick > pf_last_tick THEN tick ELSE pf_last_tick
           /\ pf_tempo' = IF event = "Tempo" /\ HasField(row, 3)
                          THEN Field(row, 3) ELSE pf_tempo
           /\ pf_active' = IF ~is_note THEN pf_active
                           ELSE IF event = "Note_on_c" /\ Field(row, 5) > 0
                                THEN OpenNote(pf_active, key, now, Field(row, 5), pf_pos)
                                ELSE closed.active
           /\ pf_events' = IF is_note /\ ~(event = "Note_on_c" /\ Field(row, 5) > 0)
                           THEN closed.events ELSE pf_events
    /\ pf_prev' = [active |-> pf_active, events |-> pf_events]
    /\ pf_pos' = pf_pos + 1
    /\ UNCHANGED <<pf_kind, pf_file, pf_rows, pf_ticks_per_beat, pf_status>>
    /\ UNCHANGED notPianoVars

\* parse_midi_file lines 557-562: open the file, merge its tracks
MidOpen ==
    /\ pf_kind = "mid" /\ pf_status = "start"
    /\ pf_rows' = pf_file
    /\ pf_ticks_per_beat' = <<MidiTicksPerBeat>>
    /\ pf_status' = "walking"
    /\ UNCHANGED <<pf_kind, pf_file, pf_pos, pf_tempo, pf_current_time, pf_last_tick,
                   pf_active, pf_events, pf_prev>>
    /\ UNCHANGED notPianoVars

\* parse_midi_file lines 563-585: one message
MidWalkMessage ==
    /\ pf_kind = "mid" /\ pf_status = "walking" /\ pf_pos <= Len(pf_rows)
    /\ LET message == pf_rows[pf_pos]
           now == pf_current_time + (message.time * pf_tempo) \div pf_ticks_per_beat[1]
           key == <<message.channel, message.note>>
           closed == CloseNote(pf_active, pf_events, key, message.note, now)
       IN  /\ pf_current_time' = now
           /\ pf_tempo' = IF message.type = "set_tempo" THEN message.tempo ELSE pf_tempo
           /\ pf_active' = IF message.type = "note_on" /\ message.velocity > 0
                           THEN OpenNote(pf_active, key, now, message.velocity, pf_pos)
                           ELSE IF message.type \in {"note_off", "note_on"}
                                THEN closed.active
                                ELSE pf_active
           /\ pf_events' = IF message.type \in {"note_off", "note_on"}
                              /\ ~(message.type = "note_on" /\ message.velocity > 0)
                           THEN closed.events ELSE pf_events
    /\ pf_prev' = [active |-> pf_active, events |-> pf_events]
    /\ pf_pos' = pf_pos + 1
    /\ UNCHANGED <<pf_kind, pf_file, pf_rows, pf_ticks_per_beat, pf_last_tick, pf_status>>
    /\ UNCHANGED notPianoVars

\* lines 586 and 651: return events
PianoReturn ==
    /\ pf_status = "walking" /\ pf_pos > Len(pf_rows)
    /\ pf_status' = "returned"
    /\ UNCHANGED <<pf_kind, pf_file, pf_rows, pf_pos, pf_ticks_per_beat, pf_tempo,
                   pf_current_time, pf_last_tick, pf_active, pf_events, pf_prev>>
    /\ UNCHANGED notPianoVars

PianoNext == CsvOpen \/ CsvWalkRow \/ MidOpen \/ MidWalkMessage \/ PianoReturn

----------------------------------------------------------------------------
(* Claims on the piano parsers *)

\* The row or message the walk handled last
LastHandled == pf_rows[pf_pos - 1]

\* It is a note-off, or a note-on with velocity 0
LastIsNoteOff ==
    IF pf_kind = "csv"
    THEN LET row == LastHandled.row
         IN  /\ row.n >= 6
             /\ \/ row.type = "Note_off_c"
                \/ row.type = "Note_on_c" /\ row.args[3] = 0
    ELSE \/ LastHandled.type = "note_off"
         \/ LastHandled.type = "note_on" /\ LastHandled.velocity = 0

LastKey ==
    IF pf_kind = "csv"
    THEN <<LastHandled.row.args[1], LastHandled.row.args[2]>>
    ELSE <<LastHandled.channel, LastHandled.note>>

\* The note-on at position k of the walk: its key and velocity
NoteOnAt(k) ==
    IF pf_kind = "csv"
    THEN [key |-> <<pf_rows[k].row.args[1], pf_rows[k].row.args[2]>>,
          velocity |-> pf_rows[k].row.args[3],
          is_on |-> pf_rows[k].row.type = "Note_on_c"]
    ELSE [key |-> <<pf_rows[k].channel, pf_rows[k].note>>,
          velocity |-> pf_rows[k].velocity,
          is_on |-> pf_rows[k].type = "note_on"]

OpenBefore(key) == {pf_prev.active[key][i] : i \in 1..Len(pf_prev.active[key])}

OpenNow(key) == {pf_active[key][i] : i \in 1..Len(pf_active[key])}

\* C6: a note-off closes the earliest still-open note-on of its (channel,
\* note): one event is emitted with that note-on's start time and velocity
\* and duration = time of the note-off - start >= 0, and that note-on alone
\* leaves the open notes; with no open note-on for the key nothing changes.
C6_FifoPairing ==
    (pf_status \in {"walking", "returned"} /\ pf_pos > 1 /\ LastIsNoteOff) =>
        LET open == OpenBefore(LastKey)
        IN  IF open = {}
            THEN pf_events = pf_prev.events /\ pf_active = pf_prev.active
            ELSE LET first == CHOOSE x \in open : \A y \in open : x.row <= y.row
                 IN  /\ NoteOnAt(first.row).is_on
                     /\ NoteOnAt(first.row).key = LastKey
                     /\ NoteOnAt(first.row).velocity = first.velocity
                     /\ first.velocity > 0
                     /\ pf_current_time - first.time >= 0
                     /\ pf_events = Append(pf_prev.events,
                                           [start |-> first.time,
                                            duration |-> pf_current_time - first.time,
                                            note |-> LastKey[2],
                                            velocity |-> first.velocity])
                     /\ OpenNow(LastKey) = open \ {first}
                     /\ Len(pf_active[LastKey]) = Len(pf_prev.active[LastKey]) - 1
                     /\ \A key \in KeyChoices \ {LastKey} :
                            pf_active[key] = pf_prev.active[key]

C6_Witness ==
    /\ pf_status = "returned"
    /\ pf_pos > 1
    /\ LastIsNoteOff
    /\ Len(pf_prev.active[<<0, 60>>]) = 2
    /\ pf_prev.active[<<0, 60>>][1].time < pf_prev.active[<<0, 60>>][2].time
    /\ Len(pf_events) = 1
    /\ pf_events[1].start = 0
    /\ pf_events[1].duration = 500000

\* The piano half of C7: parse_midicsv_file raises on a file with no Header
\* row and returns no events.
PianoMissingHeaderFails ==
    (pf_kind = "csv" /\ pf_status \in {"walking", "returned", "raised"}
        /\ \A i \in 1..Len(pf_file) : pf_file[i].type # "Header") =>
            pf_status = "raised" /\ pf_events = <<>>

----------------------------------------------------------------------------
(* Drum parse_midicsv, drum_sampler.py:679-699 *)

MaxDrumRows == 3

DrumTickChoices == {1, 241}

\* a line with two fields only
ShortRow == [n |-> 2, tick |-> 0, type |-> "", args |-> <<>>]

DrumRowChoices ==
    {CsvRow(0, "Header", <<1, 2, 480>>), CsvRow(0, "Header", <<1, 2, 96>>), ShortRow}
    \cup {CsvRow(t, "Tempo", <<600000>>) : t \in {0, 241}}
    \cup {CsvRow(t, "Note_on_c", <<0, 36, 100>>) : t \in DrumTickChoices}
    \cup {CsvRow(241, "Note_on_c", <<0, 38, 127>>),
          CsvRow(241, "Note_on_c", <<0, 38, 0>>),
          CsvRow(241, "Note_on_c", <<0, 38>>),
          CsvRow(241, "Note_off_c", <<0, 36, 64>>),
          CsvRow(480, "End_of_file", <<>>)}

\* ticks_per_beat = 480, line 680
DrumDefaultTicksPerBeat == 480

DrumCsvInit ==
    /\ dc_file \in SeqsUpTo(DrumRowChoices, MaxDrumRows)
    /\ dc_pos = 1
    /\ dc_ticks_per_beat = DrumDefaultTicksPerBeat
    /\ dc_tempos = <<>>
    /\ dc_events = <<>>
    /\ dc_status = "reading"

DrumCsvIdle ==
    /\ dc_file = <<>>
    /\ dc_pos = 1
    /\ dc_ticks_per_beat = DrumDefaultTicksPerBeat
    /\ dc_tempos = <<>>
    /\ dc_events = <<>>
    /\ dc_status = "idle"

DrumVelocityOfAnyNote(event_type, row) == Field(row, 5)

\* line 695: velocity = int(row[5]) if event_type == "Note_on_c" else 0
DrumVelocity(event_type, row) == IF event_type = "Note_on_c" THEN Field(row, 5) ELSE 0

\* lines 685-698: one row of the reader
DrumCsvRow ==
    /\ dc_status = "reading" /\ dc_pos <= Len(dc_file)
    /\ LET row == dc_file[dc_pos]
           event_type == IF row.n >= 3 THEN row.type ELSE ""
           is_header == event_type = "Header" /\ row.n >= 6
           is_tempo == ~is_header /\ event_type = "Tempo" /\ row.n >= 4
           is_note == /\ ~is_header /\ ~is_tempo
                      /\ event_type \in {"Note_on_c", "Note_off_c"} /\ row.n >= 6
           velocity == IF is_note THEN DrumVelocity(event_type, row) ELSE 0
       IN  /\ dc_ticks_per_beat' = IF is_header THEN Field(row, 5) ELSE dc_ticks_per_beat
           /\ dc_tempos' = IF is_tempo THEN Append(dc_tempos, <<row.tick, Field(row, 3)>>)
                           ELSE dc_tempos
           /\ dc_events' = IF is_note /\ velocity > 0
                           THEN Append(dc_events, <<row.tick, Field(row, 4), velocity>>)
                           ELSE dc_events
    /\ dc_pos' = dc_pos + 1
    /\ UNCHANGED <<dc_file, dc_status>>
    /\ UNCHANGED notDrumCsvVars

\* line 699: return events, tempos, ticks_per_beat
DrumCsvReturn ==
    /\ dc_status = "reading" /\ dc_pos > Len(dc_file)
    /\ dc_status' = "returned"
    /\ UNCHANGED <<dc_file, dc_pos, dc_ticks_per_beat, dc_tempos, dc_events>>
    /\ UNCHANGED notDrumCsvVars

DrumCsvNext == DrumCsvRow \/ DrumCsvReturn

----------------------------------------------------------------------------
(* Claims on the Header row *)

\* C7: parsing a MIDICSV file with no Header row fails with a format error
\* and yields no events, in the piano parser and in the drum parser alike.
C7_MissingHeaderFails ==
    /\ PianoMissingHeaderFails
    /\ (dc_status \in {"returned", "raised"}
           /\ \A i \in 1..Len(dc_file) : dc_file[i].type # "Header") =>
               dc_status = "raised" /\ dc_events = <<>>

----------------------------------------------------------------------------
(* build_events_from_notes, drum_sampler.py:724-745 *)

MaxTimedEvents == 3

TimedEventChoices ==
    {<<t, nv[1], nv[2]>> : t \in {0, 100, 250},
                           nv \in {<<36, 80>>, <<36, 100>>, <<38, 90>>, <<99, 70>>}}

NoteMapChoices ==
    {[n \in {36, 38} |-> IF n = 36 THEN "kick_open" ELSE "snare_bright"],
     [n \in {38} |-> "snare_warm"]}

\* lines 728-739: a DrumEvent for every timed event whose note is mapped
MappedEvents(timed_events, note_map) ==
    LET IsMapped(ev) == ev[2] \in DOMAIN note_map
        kept == SelectSeq(timed_events, IsMapped)
    IN  [i \in 1..Len(kept) |-> [time |-> kept[i][1],
                                 instrument |-> note_map[kept[i][2]],
                                 velocity |-> kept[i][3]]]

\* line 742: min(event.time for event in events)
EarliestTime(events) ==
    CHOOSE t \in {events[i].time : i \in 1..Len(events)} :
        \A i \in 1..Len(events) : t <= events[i].time

SortByTimeMissing(events) == events

\* line 745: sorted(events, key=lambda ev: ev.time)
SortByTime(events) ==
    SortedBy(events, [i \in 1..Len(events) |-> <<events[i].time>>])

build_events_from_notes(timed_events, note_map) ==
    LET events == MappedEvents(timed_events, note_map)
    IN  IF events = <<>> THEN <<>>
        ELSE LET start_time == EarliestTime(events)
             IN  SortByTime([i \in 1..Len(events) |->
                                [events[i] EXCEPT !.time = @ - start_time]])

BuildInit ==
    /\ be_timed_events \in SeqsUpTo(TimedEventChoices, MaxTimedEvents)
    /\ be_note_map \in NoteMapChoices
    /\ be_result = <<>>
    /\ be_done = FALSE

BuildIdle ==
    /\ be_timed_events = <<>>
    /\ be_note_map = <<>>
    /\ be_result = <<>>
    /\ be_done = FALSE

\* One call build_events_from_notes(timed_events, note_map).
BuildEvents ==
    /\ ~be_done
    /\ be_result' = build_events_from_notes(be_timed_events, be_note_map)
    /\ be_done' = TRUE
    /\ UNCHANGED <<be_timed_events, be_note_map>>
    /\ UNCHANGED notBuildVars

----------------------------------------------------------------------------
(* Claims on build_events_from_notes *)

MappedInputs == {i \in 1..Len(be_timed_events) : be_timed_events[i][2] \in DOMAIN be_note_map}

EarliestMappedInput ==
    CHOOSE t \in {be_timed_events[i][1] : i \in MappedInputs} :
        \A i \in MappedInputs : t <= be_timed_events[i][1]

\* The DrumEvent the claim expects for input i
ExpectedEvent(i) ==
    [time |-> be_timed_events[i][1] - EarliestMappedInput,
     instrument |-> be_note_map[be_timed_events[i][2]],
     velocity |-> be_timed_events[i][3]]

\* C8: the result holds one DrumEvent per mapped input event and nothing
\* else, each with its input time minus the earliest mapped input time, in
\* order of non-decreasing time, starting at time 0; no mapped note gives [].
C8_SortedFromZero ==
    be_done =>
        /\ Len(be_result) = Cardinality(MappedInputs)
        /\ \A k \in 1..Len(be_result) :
               Cardinality({j \in 1..Len(be_result) : be_result[j] = be_result[k]})
                   = Cardinality({i \in MappedInputs : ExpectedEvent(i) = be_result[k]})
        /\ \A k \in 1..(Len(be_result) - 1) : be_result[k].time <= be_result[k + 1].time
        /\ MappedInputs # {} => be_result[1].time = 0
        /\ MappedInputs = {} => be_result = <<>>

C8_Witness ==
    /\ be_done
    /\ Len(be_timed_events) = 3
    /\ Len(be_result) = 2
    /\ be_timed_events[1][1] = 250 /\ be_timed_events[1][2] = 38
    /\ be_timed_events[2][1] = 0 /\ be_timed_events[2][2] = 99
    /\ be_timed_events[3][1] = 100 /\ be_timed_events[3][2] = 36
    /\ be_result[1].instrument = "kick_open" /\ be_result[1].time = 0
    /\ be_result[2].instrument = "snare_bright" /\ be_result[2].time = 150

----------------------------------------------------------------------------
(* Piano lookup table, piano_sampler.py:154-197 *)

\* NOTE_RANGE = range(20, 111)
NoteRangeStart == 20

NoteRangeStop == 111

SAMPLES_PER_DYNAMIC == 23

\* select_sample is tried on notes and dynamics this far outside their ranges
LookupMargin == 5

NoteRange == NoteRangeStart..(NoteRangeStop - 1)

NoteRangeLen == NoteRangeStop - NoteRangeStart

SelectNoteChoices == (NoteRangeStart - LookupMargin)..(NoteRangeStop - 1 + LookupMargin)

SelectDynamicChoices == (0 - LookupMargin)..(2 + LookupMargin)

sampled_note == <<1, 1, 1, 1, 2, 2, 2, 3, 3, 3, 3, 3>>

note_deltas == <<-1, 0, 1, 2, -1, 0, 1, -2, -1, 0, 1, 2>>

make_lookup_octave_off(note, dynamic) ==
    LET octave == (note \div 12) - 1
        degree == note % 12
    IN  <<octave * 3 + sampled_note[degree + 1] + dynamic * SAMPLES_PER_DYNAMIC,
          note_deltas[degree + 1]>>

\* (sample_to_get, pitch)
make_lookup(note, dynamic) ==
    LET octave == (note \div 12) - 2
        degree == note % 12
        dynamic_offset == dynamic * SAMPLES_PER_DYNAMIC
    IN  <<octave * 3 + sampled_note[degree + 1] + dynamic_offset,
          note_deltas[degree + 1]>>

\* (indices, pitches, max_dynamic): dynamic by dynamic, note by note
build_lookup(quiet) ==
    LET dynamic_count == IF quiet THEN 2 ELSE 3
        Entry(k) == make_lookup(NoteRangeStart + ((k - 1) % NoteRangeLen),
                                (k - 1) \div NoteRangeLen)
    IN  [indices |-> [k \in 1..(dynamic_count * NoteRangeLen) |-> Entry(k)[1]],
         pitches |-> [k \in 1..(dynamic_count * NoteRangeLen) |-> Entry(k)[2]],
         max_dynamic |-> IF quiet THEN 1 ELSE 2]

\* (clamped_note, clamped_dynamic); the dynamic given is already floored
clamp_note_and_dynamic(note, dynamic, max_dynamic) ==
    <<Max2(Min2(note, NoteRangeStop - 1), NoteRangeStart),
      Max2(Min2(dynamic, max_dynamic), 0)>>

\* The table position read, the sample index and the stored pitch offset;
\* for an integer note the rate returned is 2^(pitch / 12).
select_sample(note, dynamic, indices, pitches, max_dynamic) ==
    LET clamped == clamp_note_and_dynamic(note, dynamic, max_dynamic)
        note_floor == clamped[1]
        index == note_floor - NoteRangeStart + clamped[2] * NoteRangeLen
    IN  [index |-> index, sample_index |-> indices[index + 1], pitch |-> pitches[index + 1]]

NoSelect == [note |-> 0, dynamic |-> 0, index |-> -1, sample_index |-> -1, pitch |-> 0]

LookupInit ==
    /\ lk_built = FALSE
    /\ lk_indices = <<>>
    /\ lk_pitches = <<>>
    /\ lk_max_dynamic = 0
    /\ lk_sel = NoSelect

LookupIdle ==
    /\ lk_built = FALSE
    /\ lk_indices = <<>>
    /\ lk_pitches = <<>>
    /\ lk_max_dynamic = -1
    /\ lk_sel = NoSelect

\* indices, pitches, max_dynamic = build_lookup(quiet)
BuildLookup(quiet) ==
    /\ ~lk_built
    /\ lk_built' = TRUE
    /\ lk_indices' = build_lookup(quiet).indices
    /\ lk_pitches' = build_lookup(quiet).pitches
    /\ lk_max_dynamic' = build_lookup(quiet).max_dynamic
    /\ UNCHANGED lk_sel
    /\ UNCHANGED notLookupVars

\* One call select_sample(note, dynamic, indices, pitches, max_dynamic); the
\* function reads the table only, so one call per table and argument pair is followed.
SelectSample(note, dynamic) ==
    /\ lk_built /\ lk_sel = NoSelect
    /\ LET r == select_sample(note, dynamic, lk_indices, lk_pitches, lk_max_dynamic)
       IN  lk_sel' = [note |-> note, dynamic |-> dynamic, index |-> r.index,
                      sample_index |-> r.sample_index, pitch |-> r.pitch]
    /\ UNCHANGED <<lk_built, lk_indices, lk_pitches, lk_max_dynamic>>
    /\ UNCHANGED notLookupVars

LookupNext ==
    \/ \E quiet \in BOOLEAN : BuildLookup(quiet)
    \/ \E note \in SelectNoteChoices, dynamic \in SelectDynamicChoices :
           SelectSample(note, dynamic)

----------------------------------------------------------------------------
(* Claims on the lookup table *)

NearestInRange(x, lo, hi) == IF x < lo THEN lo ELSE IF x > hi THEN hi ELSE x

\* C9: select_sample reads a position inside the table and returns a sample
\* of the tier's 23 samples with a stored offset of at most 2 semitones, the
\* tier and note being the arguments moved to the nearest value in range;
\* an argument out of range gives the result of that boundary value.
C9_SampleInTier ==
    lk_sel.index # -1 =>
        LET n == NearestInRange(lk_sel.note, 20, 110)
            d == NearestInRange(lk_sel.dynamic, 0, lk_max_dynamic)
            atBoundary == select_sample(n, d, lk_indices, lk_pitches, lk_max_dynamic)
        IN  /\ lk_sel.index \in 0..(Len(lk_indices) - 1)
            /\ lk_sel.index = (n - 20) + d * 91
            /\ lk_sel.sample_index \in (23 * d)..(23 * d + 22)
            /\ lk_sel.pitch \in -2..2
            /\ lk_sel.sample_index = atBoundary.sample_index
            /\ lk_sel.pitch = atBoundary.pitch

C9_Witness ==
    /\ lk_max_dynamic = 2
    /\ lk_sel.note = 115
    /\ lk_sel.dynamic = 3
    /\ lk_sel.index = 272
    /\ lk_sel.sample_index = 68

----------------------------------------------------------------------------
(* schedule_note_events, piano_sampler.py:663-756 *)

MaxNotes == 3

\* PERFORMANCE_STYLES (lines 109-147) in milliseconds and percent
RawStyle ==
    [name |-> "raw", attack |-> 0, legato |-> 100, release_scale |-> 35,
     release_min |-> 500, release_max |-> 4000, timing_jitter |-> 0]

DebussyStyle ==
    [name |-> "debussy", attack |-> 8, legato |-> 105, release_scale |-> 65,
     release_min |-> 2500, release_max |-> 12000, timing_jitter |-> 4]

NoteEvent(start, duration, note, velocity) ==
    [start |-> start, duration |-> duration, note |-> note, velocity |-> velocity]

NoteEventChoices ==
    {NoteEvent(t, 100, 60, 80) : t \in {0, 3}}
    \cup {NoteEvent(t, 8000, 64, 100) : t \in {0, 3}}

\* the wall clock when the call starts
ClockChoices == {1000000}

\* the wall-clock time one placement takes
PlacementMillis == 1

StartTimeChoices == {0, 100}

\* rng.uniform(-j, j): the two ends of the interval and its middle
JitterDraws(j) == {0 - j, 0, j}

SortedEventsMissing(events) == events

\* line 682: sorted(events, key=lambda e: e.start)
SortedEvents(events) ==
    SortedBy(events, [i \in 1..Len(events) |-> <<events[i].start>>])

\* lines 683-685: the highest note of the group of events starting with event
TopNote(sorted_events, event) ==
    LET group == {sorted_events[i].note : i \in {j \in 1..Len(sorted_events) :
                                                    sorted_events[j].start = event.start}}
    IN  CHOOSE n \in group : \A m \in group : m <= n

\* lines 714-717
Release(performance, event) ==
    Max2(performance.release_min,
         Min2(performance.release_max, (event.duration * performance.release_scale) \div 100))

\* line 718
Sustain(performance, event) == Max2(0, (event.duration * performance.legato) \div 100)

NoteStartUnclamped(performance, start_time, event, jitter) ==
    IF performance.timing_jitter # 0 THEN start_time + event.start + jitter
    ELSE start_time + event.start

\* lines 719-724: note_start, jitter being the value rng.uniform returns
NoteStart(performance, start_time, event, jitter) ==
    IF performance.timing_jitter # 0
    THEN Max2(start_time, start_time + event.start + jitter)
    ELSE start_time + event.start

NoteEndWithoutRelease(performance, note_start, sustain, release) ==
    note_start + performance.attack + sustain

\* lines 752-755: where the voice ends, from the origin of start_time
NoteEnd(performance, note_start, sustain, release) ==
    note_start + performance.attack + sustain + release

BaseTimeClockAlways(context, clock) == clock

\* line 681 (schedule_pattern: line 221)
BaseTime(context, clock) == IF context = "Score" THEN 0 ELSE clock

SchedInit ==
    /\ sn_events \in SeqsUpTo(NoteEventChoices, MaxNotes)
    /\ sn_context \in {"Score", "Server"}
    /\ sn_clock \in ClockChoices
    /\ sn_start_time \in StartTimeChoices
    /\ sn_performance \in {RawStyle, DebussyStyle}
    /\ sn_sorted_events = <<>>
    /\ sn_base_time = 0
    /\ sn_pos = 1
    /\ sn_synth_calls = <<>>
    /\ sn_max_end_time = 0
    /\ sn_status = "start"

SchedIdle ==
    /\ sn_events = <<>>
    /\ sn_context = "none"
    /\ sn_clock = 0
    /\ sn_start_time = 0
    /\ sn_performance = RawStyle
    /\ sn_sorted_events = <<>>
    /\ sn_base_time = 0
    /\ sn_pos = 1
    /\ sn_synth_calls = <<>>
    /\ sn_max_end_time = 0
    /\ sn_status = "idle"

\* lines 678-682
ScheduleBegin ==
    /\ sn_status = "start"
    /\ sn_max_end_time' = sn_start_time
    /\ sn_base_time' = BaseTime(sn_context, sn_clock)
    /\ sn_sorted_events' = SortedEvents(sn_events)
    /\ sn_status' = "placing"
    /\ UNCHANGED <<sn_events, sn_context, sn_clock, sn_start_time, sn_performance,
                   sn_pos, sn_synth_calls>>
    /\ UNCHANGED notSchedVars

\* lines 686-755: one event of one group
SchedulePlace(jitter) ==
    /\ sn_status = "placing" /\ sn_pos <= Len(sn_sorted_events)
    /\ LET event == sn_sorted_events[sn_pos]
           release == Release(sn_performance, event)
           sustain == Sustain(sn_performance, event)
           note_start == NoteStart(sn_performance, sn_start_time, event, jitter)
           role == IF event.note = TopNote(sn_sorted_events, event)
                   THEN "melody" ELSE "accompaniment"
       IN  /\ sn_synth_calls' = Append(sn_synth_calls,
                                       [time |-> sn_base_time + note_start,
                                        event |-> event, role |-> role,
                                        atk |-> sn_performance.attack,
                                        sus |-> sustain, rel |-> release])
           /\ sn_max_end_time' = Max2(sn_max_end_time,
                                      NoteEnd(sn_performance, note_start, sustain, release))
    /\ sn_pos' = sn_pos + 1
    /\ sn_clock' = sn_clock + PlacementMillis
    /\ UNCHANGED <<sn_events, sn_context, sn_start_time, sn_performance,
                   sn_sorted_events, sn_base_time, sn_status>>
    /\ UNCHANGED notSchedVars

\* line 756: return max_end_time
ScheduleReturn ==
    /\ sn_status = "placing" /\ sn_pos > Len(sn_sorted_events)
    /\ sn_status' = "returned"
    /\ UNCHANGED <<sn_events, sn_context, sn_clock, sn_start_time, sn_performance,
                   sn_sorted_events, sn_base_time, sn_pos, sn_synth_calls, sn_max_end_time>>
    /\ UNCHANGED notSchedVars

SchedNext ==
    \/ ScheduleBegin
    \/ \E jitter \in JitterDraws(sn_performance.timing_jitter) : SchedulePlace(jitter)
    \/ ScheduleReturn

----------------------------------------------------------------------------
(* Claims on schedule_note_events *)

\* C10: one placement per input event, issued in non-decreasing order of
\* event start whatever the input order; with no timing jitter the placement
\* times are non-decreasing too.
C10_PlacedInStartOrder ==
    /\ \A k \in 1..(Len(sn_synth_calls) - 1) :
           /\ sn_synth_calls[k].event.start <= sn_synth_calls[k + 1].event.start
           /\ sn_performance.timing_jitter = 0 =>
                  sn_synth_calls[k].time <= sn_synth_calls[k + 1].time
    /\ sn_status = "returned" =>
           /\ Len(sn_synth_calls) = Len(sn_events)
           /\ \A i \in 1..Len(sn_events) :
                  Cardinality({k \in 1..Len(sn_synth_calls) :
                                   sn_synth_calls[k].event = sn_events[i]})
                      = Cardinality({j \in 1..Len(sn_events) : sn_events[j] = sn_events[i]})

C10_Witness ==
    /\ sn_status = "returned"
    /\ Len(sn_events) = 3
    /\ sn_events[1].start > sn_events[2].start
    /\ sn_events[3].start > sn_events[2].start
    /\ sn_performance.timing_jitter = 0
    /\ sn_context = "Server"
    /\ sn_synth_calls[1].time < sn_synth_calls[2].time
    /\ sn_synth_calls[1].event = sn_events[2]

\* the end of the voice a placement starts, from the origin of start_time
PlacementEnd(c) == (c.time - sn_base_time) + c.atk + c.sus + c.rel

\* C11: the value returned is at least the end (start + attack + sustain +
\* release) of every placement, is the end of the latest-ending placement,
\* and is start_time when there was no event.
C11_ReturnsLogicalEnd ==
    sn_status = "returned" =>
        /\ \A k \in 1..Len(sn_synth_calls) : PlacementEnd(sn_synth_calls[k]) <= sn_max_end_time
        /\ sn_synth_calls # <<>> =>
               \E k \in 1..Len(sn_synth_calls) : PlacementEnd(sn_synth_calls[k]) = sn_max_end_time
        /\ sn_events = <<>> => sn_max_end_time = sn_start_time

C11_Witness ==
    /\ sn_status = "returned"
    /\ Len(sn_synth_calls) = 3
    /\ sn_context = "Server"
    /\ sn_start_time > 0
    /\ PlacementEnd(sn_synth_calls[1]) = sn_max_end_time
    /\ PlacementEnd(sn_synth_calls[3]) < sn_max_end_time

----------------------------------------------------------------------------
(* schedule_pattern, piano_sampler.py:204-245 *)

(* The times of schedule_pattern are Python floats (IEEE-754 binary64): the  *)
(* sums are rounded to 53 significant bits, ties to even.  A float is held   *)
(* as a sign and a magnitude, the magnitude in four limbs of 24 bits: the    *)
(* whole part, then 72 bits of fraction.  Every float of magnitude from      *)
(* 2^-20 up to 2^24 is held exactly, and so is every sum of two of them.     *)

Limb == 2^24

MaxPlacements == 12

\* the one member of a set of one: a value bound by \in is computed once
Only(set) == CHOOSE value \in set : TRUE

Magnitude(whole, high, middle, low) == <<whole, high, middle, low>>

MagZero == Magnitude(0, 0, 0, 0)

Float(neg, mag) == Only({[neg |-> neg /\ m # MagZero, mag |-> m] : m \in {mag}})

MagAdd(a, b) ==
    LET s4 == a[4] + b[4]
        s3 == a[3] + b[3] + s4 \div Limb
        s2 == a[2] + b[2] + s3 \div Limb
        s1 == a[1] + b[1] + s2 \div Limb
    IN  Magnitude(s1, s2 % Limb, s3 % Limb, s4 % Limb)

\* a - b for a >= b
MagSub(a, b) ==
    LET d4 == a[4] - b[4]
        d3 == a[3] - b[3] + d4 \div Limb
        d2 == a[2] - b[2] + d3 \div Limb
        d1 == a[1] - b[1] + d2 \div Limb
    IN  Magnitude(d1, d2 % Limb, d3 % Limb, d4 % Limb)

MagLess(a, b) ==
    \E k \in 1..4 : a[k] < b[k] /\ \A j \in 1..(k - 1) : a[j] = b[j]

\* the number of bits from the highest set bit down to the lowest place
BitLength(mag) ==
    IF mag = MagZero THEN 0
    ELSE LET k == CHOOSE j \in 1..4 : mag[j] # 0 /\ \A i \in 1..(j - 1) : mag[i] = 0
             width == CHOOSE n \in 1..24 : 2^(n - 1) <= mag[k] /\ mag[k] < 2^n
         IN  24 * (4 - k) + width

\* the lowest drop bits of a magnitude
LowBits(mag, drop) ==
    [k \in 1..4 |->
        LET n == drop - 24 * (4 - k)
        IN  IF n <= 0 THEN 0 ELSE IF n >= 24 THEN mag[k] ELSE mag[k] % 2^n]

\* the magnitude with the one bit at place drop set, places counted from 0
BitPlace(drop) ==
    [k \in 1..4 |->
        LET n == drop - 24 * (4 - k)
        IN  IF 0 <= n /\ n < 24 THEN 2^n ELSE 0]

BitAt(mag, drop) == (mag[4 - drop \div 24] \div 2^(drop % 24)) % 2

\* mag without its lowest drop bits, which are low, rounded to nearest, ties
\* to even; inexact says that the value has more below the lowest place
RoundedTo(mag, inexact, drop, low) ==
    LET half == BitPlace(drop - 1)
        kept == MagSub(mag, low)
        up == \/ MagLess(half, low)
              \/ low = half /\ (inexact \/ BitAt(mag, drop) = 1)
    IN  IF up THEN MagAdd(kept, BitPlace(drop)) ELSE kept

\* rounding to 53 significant bits
Rounded(mag, inexact) ==
    Only({Only({IF drop <= 0 THEN m
                ELSE Only({RoundedTo(m, inexact, drop, low) : low \in {LowBits(m, drop)}}) :
                drop \in {BitLength(m) - 53}}) :
          m \in {mag}})

FloatSum(x, y) ==
    IF x.neg = y.neg THEN Float(x.neg, Rounded(MagAdd(x.mag, y.mag), FALSE))
    ELSE IF MagLess(x.mag, y.mag) THEN Float(y.neg, Rounded(MagSub(y.mag, x.mag), FALSE))
    ELSE Float(x.neg, Rounded(MagSub(x.mag, y.mag), FALSE))

\* x + y of two floats
FloatAdd(x, y) == Only({FloatSum(a, b) : a \in {x}, b \in {y}})

\* x < y of two floats
FloatLess(x, y) ==
    IF x.neg # y.neg THEN x.neg
    ELSE IF x.neg THEN MagLess(y.mag, x.mag)
    ELSE MagLess(x.mag, y.mag)

\* the float of a decimal literal of millis thousandths: 0.1 is Seconds(100)
Seconds(millis) ==
    LET n == IF millis < 0 THEN 0 - millis ELSE millis
        r0 == n % 1000
        r1 == (r0 * 4096) % 1000
        r2 == (r1 * 4096) % 1000
        r3 == (r2 * 4096) % 1000
        r4 == (r3 * 4096) % 1000
        r5 == (r4 * 4096) % 1000
        r6 == (r5 * 4096) % 1000
        mag == Magnitude(n \div 1000,
                         ((r0 * 4096) \div 1000) * 4096 + (r1 * 4096) \div 1000,
                         ((r2 * 4096) \div 1000) * 4096 + (r3 * 4096) \div 1000,
                         ((r4 * 4096) \div 1000) * 4096 + (r5 * 4096) \div 1000)
    IN  Float(millis < 0, Rounded(mag, r6 # 0))

\* the float 2.0 ** n, n from -72 to 23
TwoTo(n) == Float(FALSE, BitPlace(n + 72))

FloatSeq(millis) == [i \in DOMAIN millis |-> Seconds(millis[i])]

PatternDurationChoices == {0 - 250, 0, 500, 1000}

PatternNotesChoices == {<<62>>, <<100, 93>>}

\* durs in seconds: [0.25], [0.5, 0.25], [0.1] and [2.0 ** -60]
PatternDursChoices ==
    {FloatSeq(<<250>>), FloatSeq(<<500, 250>>), FloatSeq(<<100>>), <<TwoTo(0 - 60)>>}

PatternDynamicsChoices == {<<1, 0, 0>>}

PatternAmpsChoices == {<<50, 200>>}

PatternRelChoices == {4000}

CycledNever(values, k) == values[1]

\* itertools.cycle(values) after k values were taken (lines 200-201)
Cycled(values, k) == values[(k % Len(values)) + 1]

PatternInit ==
    /\ sp_context \in {"Score", "Server"}
    /\ sp_clock \in ClockChoices
    /\ sp_start_time \in {Seconds(millis) : millis \in StartTimeChoices}
    /\ sp_duration \in {Seconds(millis) : millis \in PatternDurationChoices}
    /\ sp_notes \in PatternNotesChoices
    /\ sp_durs \in PatternDursChoices
    /\ sp_dynamics \in PatternDynamicsChoices
    /\ sp_amps \in PatternAmpsChoices
    /\ sp_rel \in {Seconds(millis) : millis \in PatternRelChoices}
    /\ sp_base_time = Seconds(0)
    /\ sp_current_time = Seconds(0)
    /\ sp_synth_calls = <<>>
    /\ sp_result = <<>>
    /\ sp_status = "start"

PatternIdle ==
    /\ sp_context = "none"
    /\ sp_clock = 0
    /\ sp_start_time = Seconds(0)
    /\ sp_duration = Seconds(0)
    /\ sp_notes = <<>>
    /\ sp_durs = <<>>
    /\ sp_dynamics = <<>>
    /\ sp_amps = <<>>
    /\ sp_rel = Seconds(0)
    /\ sp_base_time = Seconds(0)
    /\ sp_current_time = Seconds(0)
    /\ sp_synth_calls = <<>>
    /\ sp_result = <<>>
    /\ sp_status = "idle"

\* lines 221-226
PatternBegin ==
    /\ sp_status = "start"
    /\ sp_base_time' = Seconds(BaseTime(sp_context, sp_clock))
    /\ sp_current_time' = sp_start_time
    /\ sp_status' = "placing"
    /\ UNCHANGED <<sp_context, sp_clock, sp_start_time, sp_duration, sp_notes, sp_durs,
                   sp_dynamics, sp_amps, sp_rel, sp_synth_calls, sp_result>>
    /\ UNCHANGED notPatternVars

\* line 227: current_time < start_time + duration
InWindow(current_time, start_time, duration) ==
    FloatLess(current_time, FloatAdd(start_time, duration))

\* lines 227-244: one turn of the loop
PatternPlace ==
    /\ sp_status = "placing"
    /\ InWindow(sp_current_time, sp_start_time, sp_duration)
    /\ Len(sp_synth_calls) < MaxPlacements
    /\ LET k == Len(sp_synth_calls)
           note == Cycled(sp_notes, k)
           dur == Cycled(sp_durs, k)
       IN  /\ sp_synth_calls' = Append(sp_synth_calls,
                                       [time |-> FloatAdd(sp_base_time, sp_current_time),
                                        note |-> note, dyn |-> Cycled(sp_dynamics, k),
                                        amp |-> Cycled(sp_amps, k), rel |-> sp_rel])
           /\ sp_current_time' = FloatAdd(sp_current_time, dur)
    /\ sp_clock' = sp_clock + PlacementMillis
    /\ UNCHANGED <<sp_context, sp_start_time, sp_duration, sp_notes, sp_durs, sp_dynamics,
                   sp_amps, sp_rel, sp_base_time, sp_result, sp_status>>
    /\ UNCHANGED notPatternVars

\* line 245
PatternReturn ==
    /\ sp_status = "placing"
    /\ ~InWindow(sp_current_time, sp_start_time, sp_duration)
    /\ sp_result' = <<FloatAdd(FloatAdd(sp_start_time, sp_duration), sp_rel)>>
    /\ sp_status' = "returned"
    /\ UNCHANGED <<sp_context, sp_clock, sp_start_time, sp_duration, sp_notes, sp_durs,
                   sp_dynamics, sp_amps, sp_rel, sp_base_time, sp_current_time,
                   sp_synth_calls>>
    /\ UNCHANGED notPatternVars

PatternNext ==
    \/ PatternBegin
    \/ PatternPlace
    \/ PatternReturn

\* one call of either scheduler
SchedulersNext ==
    \/ SchedNext
    \/ PatternNext

----------------------------------------------------------------------------
(* Claims on the base time of both schedulers *)

\* the wall clock when the call started: each placement so far took PlacementMillis
ClockAtCall(clock, calls) == clock - PlacementMillis * Len(calls)

ExpectedBase(context, clock, calls) ==
    IF context = "Score" THEN 0 ELSE ClockAtCall(clock, calls)

RECURSIVE PatternOffset(_, _, _)
\* start_time and the first k values of the cycled durs, added one by one
PatternOffset(start_time, durs, k) ==
    IF k = 0 THEN start_time
    ELSE FloatAdd(PatternOffset(start_time, durs, k - 1), Cycled(durs, k - 1))

\* C12: with no timing jitter schedule_note_events places each event at
\* base + start_time + event.start, base being 0 for a Score and the wall
\* clock read once when the call started for a live context; schedule_pattern
\* places its notes from the same base.
C12_PlacedFromBase ==
    /\ sn_performance.timing_jitter = 0 =>
           \A k \in 1..Len(sn_synth_calls) :
               sn_synth_calls[k].time =
                   ExpectedBase(sn_context, sn_clock, sn_synth_calls)
                       + sn_start_time + sn_synth_calls[k].event.start
    /\ \A k \in 1..Len(sp_synth_calls) :
           sp_synth_calls[k].time =
               FloatAdd(Seconds(ExpectedBase(sp_context, sp_clock, sp_synth_calls)),
                        PatternOffset(sp_start_time, sp_durs, k - 1))

C12_Witness ==
    /\ sn_status = "returned"
    /\ sn_context = "Server"
    /\ sn_performance.timing_jitter = 0
    /\ sn_start_time = 100
    /\ Len(sn_synth_calls) = 2
    /\ sn_clock > 1000000
    /\ sn_synth_calls[1].time = 1000100
    /\ sn_synth_calls[2].time = 1000103

----------------------------------------------------------------------------
(* Claims on timing jitter *)

\* C13: whatever the timing jitter, no placement of schedule_note_events is
\* earlier than base + start_time (the events start at 0 or later).
C13_NeverBeforeStart ==
    \A k \in 1..Len(sn_synth_calls) :
        /\ sn_synth_calls[k].event.start >= 0
        /\ sn_synth_calls[k].time >=
               ExpectedBase(sn_context, sn_clock, sn_synth_calls) + sn_start_time

\* a note starting 3 ms in, drawn 4 ms early, is held at the start of the schedule
C13_Witness ==
    /\ sn_status = "returned"
    /\ sn_performance.timing_jitter = 4
    /\ sn_context = "Server"
    /\ \E k \in 1..Len(sn_synth_calls) :
           /\ sn_synth_calls[k].event.start = 3
           /\ sn_synth_calls[k].time = sn_base_time + sn_start_time

----------------------------------------------------------------------------
(* load_kit and _wait_for_buffers_loaded, drum_sampler.py:568-646 *)

MaxInstruments == 3

REALTIME_BUFFER_LOAD_BATCH_SIZE == 24

\* timeout: float = 30.0
WaitTimeout == 30000

\* time.sleep(0.05)
WaitSleep == 50

LayerCountChoices == {1, 24, 25}

MonotonicChoices == {5000}

\* how long the queries of one pass take
QueryMillisChoices == {14950, 30000}

IdsFrom(next, n) == [i \in 1..n |-> next + i - 1]

AddBuffersButTheFirst(loaded_layers, pending, next) ==
    [i \in DOMAIN loaded_layers |->
        LET Mine(k) == pending[k][1] = i /\ k > 1
            mine == SelectSeq([k \in 1..Len(pending) |-> k], Mine)
        IN  loaded_layers[i] \o
                [j \in 1..Len(mine) |->
                    [layer |-> pending[mine[j]][2], buffer |-> next + mine[j] - 1]]]

\* lines 578-582, 596-600 and 604-608: one add_buffer per pending layer, in
\* order, each loaded layer appended to the layers of its instrument
AddBuffers(loaded_layers, pending, next) ==
    [i \in DOMAIN loaded_layers |->
        LET Mine(k) == pending[k][1] = i
            mine == SelectSeq([k \in 1..Len(pending) |-> k], Mine)
        IN  loaded_layers[i] \o
                [j \in 1..Len(mine) |->
                    [layer |-> pending[mine[j]][2], buffer |-> next + mine[j] - 1]]]

RECURSIVE CatalogLayers(_, _)
\* the layers of the instruments from position i on, each with its instrument:
\* <<instrument, layer>> pairs, a layer being its position in instrument.layers
CatalogLayers(catalog, i) ==
    IF i > Len(catalog) THEN <<>>
    ELSE [k \in 1..catalog[i] |-> <<i, k>>] \o CatalogLayers(catalog, i + 1)

RECURSIVE AllBuffers(_, _)
\* lines 609-613: all_buffers
AllBuffers(loaded_layers, i) ==
    IF i > Len(loaded_layers) THEN <<>>
    ELSE [j \in 1..Len(loaded_layers[i]) |-> loaded_layers[i][j].buffer]
             \o AllBuffers(loaded_layers, i + 1)

SeqRange(seq) == {seq[i] : i \in 1..Len(seq)}

BatchLimitMissing(pending) == FALSE

\* line 592
BatchFull(pending) == Len(pending) >= REALTIME_BUFFER_LOAD_BATCH_SIZE

\* the _rotation an instrument of INSTRUMENTS has when the kit is loaded
CatalogRotationChoices == {0, 1}

RotationKept(catalog_rotation) == catalog_rotation

\* lines 576 and 590: dataclasses.replace(instrument, _rotation=0)
LoadedRotation(catalog_rotation) == 0

KitInit ==
    /\ kit_context \in {"Score", "Server", "Other"}
    /\ kit_at \in {<<>>, <<0>>}
    /\ kit_catalog \in SeqsUpTo(LayerCountChoices, MaxInstruments)
    /\ kit_inst = 1
    /\ kit_layer = 1
    /\ kit_pending = <<>>
    /\ kit_layers = <<>>
    /\ kit_instruments = <<>>
    /\ kit_batches = <<>>
    /\ kit_next_buffer = 1
    /\ kit_clock \in MonotonicChoices
    /\ kit_deadline = 0
    /\ kit_wait_pending = <<>>
    /\ kit_loaded = {}
    /\ kit_observed = {}
    /\ kit_status = "start"

KitIdle ==
    /\ kit_context = "none"
    /\ kit_at = <<>>
    /\ kit_catalog = <<>>
    /\ kit_inst = 1
    /\ kit_layer = 1
    /\ kit_pending = <<>>
    /\ kit_layers = <<>>
    /\ kit_instruments = <<>>
    /\ kit_batches = <<>>
    /\ kit_next_buffer = 1
    /\ kit_clock = 0
    /\ kit_deadline = 0
    /\ kit_wait_pending = <<>>
    /\ kit_loaded = {}
    /\ kit_observed = {}
    /\ kit_status = "idle"

\* lines 572-583: a Score, or a time given: everything in one context.at(at) block
LoadKitAtOnce ==
    /\ kit_status = "start"
    /\ kit_context = "Score" \/ kit_at # <<>>
    /\ LET all == CatalogLayers(kit_catalog, 1)
       IN  /\ kit_layers' = AddBuffers([i \in 1..Len(kit_catalog) |-> <<>>], all, kit_next_buffer)
           /\ kit_batches' = Append(kit_batches, IdsFrom(kit_next_buffer, Len(all)))
           /\ kit_next_buffer' = kit_next_buffer + Len(all)
    /\ kit_inst' = Len(kit_catalog) + 1
    /\ kit_status' = "loaded"
    /\ UNCHANGED <<kit_context, kit_at, kit_catalog, kit_layer, kit_pending, kit_clock,
                   kit_deadline, kit_wait_pending, kit_loaded, kit_observed>>
    /\ \E catalog_rotation \in CatalogRotationChoices :
           kit_instruments' = [i \in 1..Len(kit_catalog) |-> LoadedRotation(catalog_rotation)]
    /\ UNCHANGED notKitVars

\* lines 584-588: a live context and no time: the synthdef goes in a block of its own
LoadKitSynthdefs ==
    /\ kit_status = "start"
    /\ ~(kit_context = "Score" \/ kit_at # <<>>)
    /\ kit_batches' = Append(kit_batches, <<>>)
    /\ kit_layers' = [i \in 1..Len(kit_catalog) |-> <<>>]
    /\ kit_status' = "batching"
    /\ UNCHANGED <<kit_instruments, kit_context, kit_at, kit_catalog, kit_inst, kit_layer, kit_pending,
                   kit_next_buffer, kit_clock, kit_deadline, kit_wait_pending, kit_loaded,
                   kit_observed>>
    /\ UNCHANGED notKitVars

\* lines 589-598: one layer of one instrument
LoadKitLayer ==
    /\ kit_status = "batching"
    /\ kit_inst <= Len(kit_catalog)
    /\ LET pending == Append(kit_pending, <<kit_inst, kit_layer>>)
       IN  IF BatchFull(pending)
           THEN /\ kit_layers' = AddBuffers(kit_layers, pending, kit_next_buffer)
                /\ kit_batches' = Append(kit_batches, IdsFrom(kit_next_buffer, Len(pending)))
                /\ kit_next_buffer' = kit_next_buffer + Len(pending)
                /\ kit_pending' = <<>>
           ELSE /\ kit_pending' = pending
                /\ UNCHANGED <<kit_layers, kit_batches, kit_next_buffer>>
    /\ IF kit_layer < kit_catalog[kit_inst]
       THEN kit_layer' = kit_layer + 1 /\ kit_inst' = kit_inst
       ELSE kit_layer' = 1 /\ kit_inst' = kit_inst + 1
    /\ UNCHANGED <<kit_context, kit_at, kit_catalog, kit_clock, kit_deadline,
                   kit_wait_pending, kit_loaded, kit_observed, kit_status>>
    /\ \E catalog_rotation \in CatalogRotationChoices :
           kit_instruments' = IF kit_layer = 1
                              THEN Append(kit_instruments, LoadedRotation(catalog_rotation))
                              ELSE kit_instruments
    /\ UNCHANGED notKitVars

\* lines 599-604: what is left after the last instrument
LoadKitRest ==
    /\ kit_status = "batching"
    /\ kit_inst > Len(kit_catalog)
    /\ IF kit_pending # <<>>
       THEN /\ kit_layers' = AddBuffers(kit_layers, kit_pending, kit_next_buffer)
            /\ kit_batches' = Append(kit_batches, IdsFrom(kit_next_buffer, Len(kit_pending)))
            /\ kit_next_buffer' = kit_next_buffer + Len(kit_pending)
       ELSE UNCHANGED <<kit_layers, kit_batches, kit_next_buffer>>
    /\ kit_status' = "loaded"
    /\ UNCHANGED <<kit_instruments, kit_context, kit_at, kit_catalog, kit_inst, kit_layer, kit_pending,
                   kit_clock, kit_deadline, kit_wait_pending, kit_loaded, kit_observed>>
    /\ UNCHANGED notKitVars

\* lines 607-608 and 615: not a server: the kit is returned without waiting
LoadKitReturn ==
    /\ kit_status = "loaded"
    /\ kit_context # "Server"
    /\ kit_status' = "returned"
    /\ UNCHANGED <<kit_instruments, kit_context, kit_at, kit_catalog, kit_inst, kit_layer, kit_pending,
                   kit_layers, kit_batches, kit_next_buffer, kit_clock, kit_deadline,
                   kit_wait_pending, kit_loaded, kit_observed>>
    /\ UNCHANGED notKitVars

\* lines 607-614 and 627-629: a server: _wait_for_buffers_loaded is called
WaitBegin ==
    /\ kit_status = "loaded"
    /\ kit_context = "Server"
    /\ kit_deadline' = kit_clock + WaitTimeout
    /\ kit_wait_pending' = AllBuffers(kit_layers, 1)
    /\ kit_status' = IF AllBuffers(kit_layers, 1) = <<>> THEN "returned" ELSE "waiting"
    /\ UNCHANGED <<kit_instruments, kit_context, kit_at, kit_catalog, kit_inst, kit_layer, kit_pending,
                   kit_layers, kit_batches, kit_next_buffer, kit_clock, kit_loaded,
                   kit_observed>>
    /\ UNCHANGED notKitVars

\* what the server has finished loading when a pass begins
LoadChoices(pending) ==
    IF pending = <<>> THEN {{}}
    ELSE {{}, {Head(pending)}, {pending[Len(pending)]}, SeqRange(pending)}

\* what the server finishes loading while a pass is under way: <<after, late>>,
\* the buffers of late are loaded once the query at position after has been
\* answered
LateChoices(pending) == {<<0, {}>>, <<1, SeqRange(pending)>>}

\* lines 631-638: the buffers of pending that their query reports with
\* frame_count > 0; the query at position j is a blocking round trip
\* (sync=True) that sees what the server has loaded by then
Reported(pending, loaded, after, late) ==
    {pending[j] : j \in {k \in 1..Len(pending) :
                            pending[k] \in loaded \cup (IF k > after THEN late ELSE {})}}

StillPendingForgetful(pending, reported) == <<>>

\* lines 631-638: still_pending after the queries of one pass
StillPending(pending, reported) ==
    LET Unreported(b) == b \notin reported
    IN  SelectSeq(pending, Unreported)

\* line 641
DeadlinePassed(clock, deadline) == clock >= deadline

\* lines 629-646: one turn of the loop
WaitPass(load, after, late, query_millis) ==
    /\ kit_status = "waiting"
    /\ LET reported == Reported(kit_wait_pending, kit_loaded \cup load, after, late)
           still_pending == StillPending(kit_wait_pending, reported)
           clock == kit_clock + query_millis
       IN  /\ kit_loaded' = kit_loaded \cup load \cup late
           /\ kit_observed' = kit_observed \cup reported
           /\ IF still_pending = <<>>
              THEN /\ kit_status' = "returned"
                   /\ kit_clock' = clock
                   /\ UNCHANGED kit_wait_pending
              ELSE IF DeadlinePassed(clock, kit_deadline)
              THEN /\ kit_status' = "timeout"
                   /\ kit_clock' = clock
                   /\ kit_wait_pending' = still_pending
              ELSE /\ kit_status' = "waiting"
                   /\ kit_clock' = clock + WaitSleep
                   /\ kit_wait_pending' = still_pending
    /\ UNCHANGED <<kit_instruments, kit_context, kit_at, kit_catalog, kit_inst, kit_layer, kit_pending,
                   kit_layers, kit_batches, kit_next_buffer, kit_deadline>>
    /\ UNCHANGED notKitVars

KitNext ==
    \/ LoadKitAtOnce
    \/ LoadKitSynthdefs
    \/ LoadKitLayer
    \/ LoadKitRest
    \/ LoadKitReturn
    \/ WaitBegin
    \/ \E load \in LoadChoices(kit_wait_pending), change \in LateChoices(kit_wait_pending),
          query_millis \in QueryMillisChoices :
           WaitPass(load, change[1], change[2], query_millis)

----------------------------------------------------------------------------
(* Claims on load_kit and _wait_for_buffers_loaded *)

CatalogSize == Len(CatalogLayers(kit_catalog, 1))

RECURSIVE Flattened(_, _)
Flattened(seqs, i) == IF i > Len(seqs) THEN <<>> ELSE seqs[i] \o Flattened(seqs, i + 1)

LoadingDone == kit_status \in {"loaded", "waiting", "returned", "timeout"}

\* C14: loading into a live context with at = None, no context.at() block
\* holds more than REALTIME_BUFFER_LOAD_BATCH_SIZE allocations, every layer is
\* allocated once, and a catalog larger than the limit takes two blocks or more.
C14_BatchesWithinLimit ==
    (kit_context \in {"Server", "Other"} /\ kit_at = <<>>) =>
        /\ \A b \in 1..Len(kit_batches) :
               Len(kit_batches[b]) <= REALTIME_BUFFER_LOAD_BATCH_SIZE
        /\ LoadingDone =>
               /\ Flattened(kit_batches, 1) = IdsFrom(1, CatalogSize)
               /\ CatalogSize > REALTIME_BUFFER_LOAD_BATCH_SIZE =>
                      Cardinality({b \in 1..Len(kit_batches) : kit_batches[b] # <<>>}) >= 2

C14_Witness ==
    /\ kit_status = "returned"
    /\ kit_context = "Server"
    /\ kit_at = <<>>
    /\ kit_catalog = <<25, 25>>
    /\ Len(kit_batches) = 4
    /\ Len(kit_batches[2]) = 24
    /\ Len(kit_batches[4]) = 2

\* the buffers the kit holds
KitBuffers == SeqRange(AllBuffers(kit_layers, 1))

\* C15: on a server the call returns only once every buffer of the kit has
\* been reported with a frame count > 0 by a query; it raises TimeoutError
\* when a pass leaves a buffer unreported and the deadline has passed, the
\* buffers it counts being those no query has reported, whatever the server
\* has loaded since; and it never goes on waiting past the deadline.
C15_WaitsForEveryBuffer ==
    /\ (kit_status = "returned" /\ kit_context = "Server") =>
           /\ KitBuffers = 1..CatalogSize
           /\ KitBuffers \subseteq kit_observed
           /\ kit_observed \subseteq kit_loaded
    /\ kit_status = "timeout" =>
           /\ kit_clock >= kit_deadline
           /\ kit_wait_pending # <<>>
           /\ SeqRange(kit_wait_pending) = KitBuffers \ kit_observed
    /\ kit_status = "waiting" =>
           /\ kit_clock - WaitSleep < kit_deadline
           /\ SeqRange(kit_wait_pending) = KitBuffers \ kit_observed

C15_Witness ==
    /\ kit_status = "returned"
    /\ kit_context = "Server"
    /\ kit_catalog = <<1, 24>>
    /\ kit_clock >= kit_deadline
    /\ kit_observed = 1..25

----------------------------------------------------------------------------
(* The generative programs: piano_sampler.py:1186-1598, drum_sampler.py:912-1139 *)

\* the run is cut here when no duration limit is given
MaxRunMillis == 120000

ProgramChoices == {"piano.run_background_01", "piano.run_ambient_01", "drum.run_ambient_01"}

DurationChoices == {<<>>, <<0>>, <<60000>>}

\* how long one turn of the loop takes, its sleep included
TurnMillisChoices == {5000, 30000}

\* how much of a turn has passed when an exception ends it
PassedMillisChoices == {0, 20}

\* rng.uniform(32.0, 55.0), (35.0, 55.0), (30.0, 55.0), (chord_min, chord_max)
ChordChangeMillisChoices == {40000}

\* the chord a spawn plays: one grain cloud per note
ChordNotes == <<48, 55>>

\* fade_time + 1.0
FadeAndFree == 8000 + 1000

\* the piano programs keep their grain clouds; the drum program drops the
\* synths add_synth returns (drum_sampler.py:1060-1078)
KeepsClouds(program) == program # "drum.run_ambient_01"

NewClouds(next_node) == {next_node + i : i \in 0..(Len(ChordNotes) - 1)}

NoVoices == [n \in {} |-> <<>>]

\* add_synth: a grain cloud is made; piano 1096-1114 makes it with amp=0.0,
\* drum 1063-1080 with the amplitude of the voice
SpawnVoices(voices, synths, turn, now, amp) ==
    [n \in DOMAIN voices \cup synths |->
        IF n \in synths
        THEN [amp |-> amp, spawned_turn |-> turn, spawned_at |-> now,
              faded_turn |-> 0, faded_at |-> 0, frees |-> 0, freed_turn |-> 0,
              freed_at |-> 0, set_after_free |-> FALSE]
        ELSE voices[n]]

\* piano 1115: synth.set(amp=base_amp * amp_scale)
RaiseVoices(voices, synths) ==
    [n \in DOMAIN voices |->
        IF n \in synths
        THEN [voices[n] EXCEPT !.amp = "up", !.set_after_free = @ \/ voices[n].frees > 0]
        ELSE voices[n]]

\* piano 1336-1337, 1551-1552: synth.set(amp=0.0) for each of active_clouds
FadeVoices(voices, synths, turn, now) ==
    [n \in DOMAIN voices |->
        IF n \in synths
        THEN [voices[n] EXCEPT !.amp = "zero", !.faded_turn = turn, !.faded_at = now,
                               !.set_after_free = @ \/ voices[n].frees > 0]
        ELSE voices[n]]

\* piano 1314-1315, 1546-1547: synth.free() for each synth of a due entry
FreeVoices(voices, freed, turn, now) ==
    [n \in DOMAIN voices |->
        IF n \in freed
        THEN [voices[n] EXCEPT !.frees = @ + 1, !.freed_turn = turn, !.freed_at = now]
        ELSE voices[n]]

FreedNowWhateverTheTime(pending_free, now) ==
    UNION {pending_free[i].synths : i \in 1..Len(pending_free)}

\* piano 1305-1316, 1537-1548: the synths of the entries whose time has come
FreedNow(pending_free, now) ==
    UNION {pending_free[i].synths : i \in {j \in 1..Len(pending_free) :
                                              ~(now < pending_free[j].free_at)}}

StillPendingFree(pending_free, now) ==
    LET NotYet(entry) == now < entry.free_at
    IN  SelectSeq(pending_free, NotYet)

\* piano 1302-1304, 1534-1536; drum 1117
DurationReached(duration, now, start) ==
    duration # <<>> /\ (now - start) >= duration[1]

\* the synths of a list in the order the loops walk them: the order they were
\* made in, which is the order of their node ids
RECURSIVE InOrder(_)
InOrder(synths) ==
    IF synths = {} THEN <<>>
    ELSE LET first == CHOOSE n \in synths : \A m \in synths : n <= m
         IN  <<first>> \o InOrder(synths \ {first})

\* The statements of the setup and of a loop turn that act on the grain clouds
\* or on the lists that hold them, one record each, in the order they run.
Statement(op, synth, value) == [op |-> op, synth |-> synth, value |-> value]

\* _spawn_ambient_clouds, piano 1063-1117: per chord note add_synth with
\* amp=0.0, then synth.set; drum 1061-1080: per voice one add_synth
SpawnStatements(program, next_node) ==
    LET ids == InOrder(NewClouds(next_node))
    IN  IF KeepsClouds(program)
        THEN [j \in 1..(2 * Len(ids)) |->
                 IF j % 2 = 1 THEN Statement("add_synth", ids[(j + 1) \div 2], "zero")
                 ELSE Statement("set", ids[j \div 2], "up")]
        ELSE [j \in 1..Len(ids) |-> Statement("add_synth", ids[j], "up")]

\* what runs between the load and the try statement. piano 1250-1296,
\* 1498-1529: active_clouds = _spawn_ambient_clouds(...), start =
\* time.monotonic(), next_chord_change = start + rng.uniform(...); drum
\* 1061-1110: the spawn and start = time.monotonic(): the drum program keeps
\* no list and has no chord change
SetupStatements(program, next_node, now, chord_change) ==
    SpawnStatements(program, next_node)
        \o (IF KeepsClouds(program)
            THEN <<Statement("active_clouds =", 0, NewClouds(next_node))>>
            ELSE <<>>)
        \o <<Statement("start =", 0, now)>>
        \o (IF KeepsClouds(program)
            THEN <<Statement("next_chord_change =", 0, now + chord_change)>>
            ELSE <<>>)

\* piano 1308-1316, 1540-1548: the frees of the due entries, then
\* pending_free = still_pending
FreeStatements(pending_free, now) ==
    IF pending_free = <<>> THEN <<>>
    ELSE LET freed == InOrder(FreedNow(pending_free, now))
         IN  [k \in 1..Len(freed) |-> Statement("free", freed[k], 0)]
                 \o <<Statement("pending_free =", 0, StillPendingFree(pending_free, now))>>

\* piano 1332-1364, 1549-1579: the fades, pending_free.append, the spawn,
\* active_clouds rebound, next_chord_change
ChordChangeStatements(program, active_clouds, next_node, now, chord_change) ==
    LET fading == InOrder(active_clouds)
    IN  [k \in 1..Len(fading) |-> Statement("set", fading[k], "zero")]
            \o <<Statement("pending_free.append", 0,
                           [free_at |-> now + FadeAndFree, synths |-> active_clouds])>>
            \o SpawnStatements(program, next_node)
            \o <<Statement("active_clouds =", 0, NewClouds(next_node)),
                 Statement("next_chord_change =", 0, now + chord_change)>>

\* piano 1302-1439, 1534-1594; drum 1115-1135: the statements of one turn; the
\* turn that finds the duration reached breaks at once
TurnStatements(program, duration, start, active_clouds, pending_free, next_chord_change, next_node, now, chord_change) ==
    IF DurationReached(duration, now, start) THEN <<>>
    ELSE FreeStatements(pending_free, now)
             \o (IF KeepsClouds(program) /\ now >= next_chord_change
                 THEN ChordChangeStatements(program, active_clouds, next_node, now,
                                            chord_change)
                 ELSE <<>>)

\* what the program and the engine hold of the grain clouds
Held(start, active_clouds, pending_free, next_chord_change, next_node, nodes, voices) ==
    [start |-> start, active_clouds |-> active_clouds, pending_free |-> pending_free,
     next_chord_change |-> next_chord_change, next_node |-> next_node,
     nodes |-> nodes, voices |-> voices]

\* one statement, run in the turn `turn` that read the clock as `now`
Run(held, statement, turn, now) ==
    LET n == statement.synth
    IN  CASE statement.op = "add_synth" ->
                [held EXCEPT !.nodes = @ \cup {n}, !.next_node = @ + 1,
                             !.voices = SpawnVoices(@, {n}, turn, now, statement.value)]
          [] statement.op = "set" ->
                [held EXCEPT !.voices = IF statement.value = "up"
                                        THEN RaiseVoices(@, {n})
                                        ELSE FadeVoices(@, {n}, turn, now)]
          [] statement.op = "free" ->
                [held EXCEPT !.nodes = @ \ {n},
                             !.voices = FreeVoices(@, {n}, turn, now)]
          [] statement.op = "pending_free =" ->
                [held EXCEPT !.pending_free = statement.value]
          [] statement.op = "pending_free.append" ->
                [held EXCEPT !.pending_free = Append(@, statement.value)]
          [] statement.op = "active_clouds =" ->
                [held EXCEPT !.active_clouds = statement.value]
          [] statement.op = "next_chord_change =" ->
                [held EXCEPT !.next_chord_change = statement.value]
          [] statement.op = "start =" ->
                [held EXCEPT !.start = statement.value]

\* what is held now
HeldNow ==
    Held(gp_start, gp_active_clouds, gp_pending_free, gp_next_chord_change, gp_next_node,
         gp_nodes, gp_voices)

\* the statements of the setup that is under way
SetupNow(chord_change) ==
    IF gp_pc = "spawning"
    THEN SetupStatements(gp_program, gp_next_node, gp_clock, chord_change)
    ELSE <<>>

\* the statements of the turn that begins now
TurnNow(chord_change) ==
    TurnStatements(gp_program, gp_duration, gp_start, gp_active_clouds, gp_pending_free,
                   gp_next_chord_change, gp_next_node, gp_clock, chord_change)

RECURSIVE RunFirst(_, _, _, _, _)
\* the first `done` statements run, in order
RunFirst(held, statements, done, turn, now) ==
    IF done = 0 THEN held
    ELSE Run(RunFirst(held, statements, done - 1, turn, now), statements[done], turn, now)

ProgramInit ==
    /\ gp_program \in ProgramChoices
    /\ gp_duration \in DurationChoices
    /\ gp_pc = "start"
    /\ gp_server = "none"
    /\ gp_exit = "none"
    /\ gp_clock \in MonotonicChoices
    /\ gp_start = 0
    /\ gp_next_chord_change = 0
    /\ gp_active_clouds = {}
    /\ gp_pending_free = <<>>
    /\ gp_next_node = 1000
    /\ gp_nodes = {}
    /\ gp_turn = 0
    /\ gp_voices = NoVoices

ProgramIdle ==
    /\ gp_program = "none"
    /\ gp_duration = <<>>
    /\ gp_pc = "idle"
    /\ gp_server = "none"
    /\ gp_exit = "none"
    /\ gp_clock = 0
    /\ gp_start = 0
    /\ gp_next_chord_change = 0
    /\ gp_active_clouds = {}
    /\ gp_pending_free = <<>>
    /\ gp_next_node = 1000
    /\ gp_nodes = {}
    /\ gp_turn = 0
    /\ gp_voices = NoVoices

\* piano 1201, 1460; drum 926-927: the server is booted
ProgramBoot ==
    /\ gp_pc = "start"
    /\ gp_server' = "booted"
    /\ gp_pc' = "loading"
    /\ UNCHANGED <<gp_turn, gp_voices, gp_program, gp_duration, gp_exit, gp_clock, gp_start,
                   gp_next_chord_change, gp_active_clouds, gp_pending_free, gp_next_node,
                   gp_nodes>>
    /\ UNCHANGED notProgramVars

\* piano 1202-1238, 1461-1494; drum 928-957: groups, buffers loaded and waited
\* for, synthdefs, the master effect
ProgramLoad ==
    /\ gp_pc = "loading"
    /\ gp_pc' = "spawning"
    /\ UNCHANGED <<gp_turn, gp_voices, gp_program, gp_duration, gp_server, gp_exit, gp_clock, gp_start,
                   gp_next_chord_change, gp_active_clouds, gp_pending_free, gp_next_node,
                   gp_nodes>>
    /\ UNCHANGED notProgramVars

\* piano 1250-1299, 1496-1532; drum 1060-1113: the first grain clouds, the
\* first gestures, start = time.monotonic(), next_chord_change
ProgramSpawn(chord_change) ==
    /\ gp_pc = "spawning"
    /\ LET statements == SetupNow(chord_change)
           held == RunFirst(HeldNow, statements, Len(statements), 0, gp_clock)
       IN  /\ gp_nodes' = held.nodes
           /\ gp_active_clouds' = held.active_clouds
           /\ gp_next_node' = held.next_node
           /\ gp_voices' = held.voices
           /\ gp_start' = held.start
           /\ gp_next_chord_change' = held.next_chord_change
    /\ gp_pc' = "loop"
    /\ UNCHANGED <<gp_program, gp_duration, gp_server, gp_exit, gp_clock, gp_pending_free,
                   gp_turn>>
    /\ UNCHANGED notProgramVars

\* an exception before the try statement (piano 1301, 1533; drum 1114) is
\* entered: nothing catches it, no finally clause runs. It arrives while the
\* buffers are loaded, or when `done` statements of the setup have run: what
\* they did stays done, start and next_chord_change among it
ProgramSetupRaises(kind, done, chord_change) ==
    /\ gp_pc \in {"loading", "spawning"}
    /\ LET statements == SetupNow(chord_change)
           held == RunFirst(HeldNow, statements, done, 0, gp_clock)
       IN  /\ done \in 0..Len(statements)
           /\ gp_nodes' = held.nodes
           /\ gp_active_clouds' = held.active_clouds
           /\ gp_next_node' = held.next_node
           /\ gp_voices' = held.voices
           /\ gp_start' = held.start
           /\ gp_next_chord_change' = held.next_chord_change
    /\ gp_exit' = kind
    /\ gp_pc' = "exited"
    /\ UNCHANGED <<gp_turn, gp_program, gp_duration, gp_server, gp_clock, gp_pending_free>>
    /\ UNCHANGED notProgramVars

\* piano 1302-1439, 1534-1594; drum 1115-1135: one turn of the loop
ProgramLoopTurn(turn_millis, chord_change) ==
    /\ gp_pc = "loop"
    /\ gp_clock - gp_start <= MaxRunMillis
    /\ gp_turn' = gp_turn + 1
    /\ LET now == gp_clock
           statements == TurnNow(chord_change)
           held == RunFirst(HeldNow, statements, Len(statements), gp_turn + 1, now)
       IN  IF DurationReached(gp_duration, now, gp_start)
           THEN /\ gp_pc' = "finally"
                /\ gp_exit' = "duration"
                /\ UNCHANGED <<gp_clock, gp_next_chord_change, gp_active_clouds,
                               gp_pending_free, gp_next_node, gp_nodes, gp_voices>>
           ELSE /\ gp_pending_free' = held.pending_free
                /\ gp_active_clouds' = held.active_clouds
                /\ gp_nodes' = held.nodes
                /\ gp_voices' = held.voices
                /\ gp_next_node' = held.next_node
                /\ gp_next_chord_change' = held.next_chord_change
                /\ gp_clock' = gp_clock + turn_millis
                /\ UNCHANGED <<gp_pc, gp_exit>>
    /\ UNCHANGED <<gp_program, gp_duration, gp_server, gp_start>>
    /\ UNCHANGED notProgramVars

\* an exception inside the try statement: KeyboardInterrupt is caught and
\* passed over (piano 1440-1441, 1595-1596; drum 1136-1137), anything else
\* propagates; the finally clause runs either way. It arrives in a turn when
\* `done` of the turn's statements have run: what they did stays done, the
\* rest of the turn does not run; `passed` is the time the turn has taken when
\* it arrives, the part of time.sleep that was slept included
ProgramLoopRaises(kind, done, chord_change, passed) ==
    /\ gp_pc = "loop"
    /\ gp_clock - gp_start <= MaxRunMillis
    /\ gp_turn' = gp_turn + 1
    /\ LET now == gp_clock
           statements == TurnNow(chord_change)
           held == RunFirst(HeldNow, statements, done, gp_turn + 1, now)
       IN  /\ done \in 0..Len(statements)
           /\ gp_pending_free' = held.pending_free
           /\ gp_active_clouds' = held.active_clouds
           /\ gp_nodes' = held.nodes
           /\ gp_voices' = held.voices
           /\ gp_next_node' = held.next_node
           /\ gp_next_chord_change' = held.next_chord_change
    /\ gp_clock' = gp_clock + passed
    /\ gp_exit' = kind
    /\ gp_pc' = "finally"
    /\ UNCHANGED <<gp_program, gp_duration, gp_server, gp_start>>
    /\ UNCHANGED notProgramVars

\* piano 1442-1443, 1597-1598; drum 1138-1139: server.quit() is all the finally
\* clause does; gp_nodes keeps the synths that were neither freed nor released
\* when the connection was given up
ProgramFinally ==
    /\ gp_pc = "finally"
    /\ gp_server' = "quit"
    /\ gp_pc' = "exited"
    /\ UNCHANGED <<gp_turn, gp_voices, gp_program, gp_duration, gp_exit, gp_clock, gp_start,
                   gp_next_chord_change, gp_active_clouds, gp_pending_free, gp_next_node,
                   gp_nodes>>
    /\ UNCHANGED notProgramVars

ProgramNext ==
    \/ ProgramBoot
    \/ ProgramLoad
    \/ \E chord_change \in ChordChangeMillisChoices : ProgramSpawn(chord_change)
    \/ \E kind \in {"interrupt", "error"}, chord_change \in ChordChangeMillisChoices :
           \E done \in 0..Len(SetupNow(chord_change)) :
               ProgramSetupRaises(kind, done, chord_change)
    \/ \E turn_millis \in TurnMillisChoices, chord_change \in ChordChangeMillisChoices :
           ProgramLoopTurn(turn_millis, chord_change)
    \/ \E kind \in {"interrupt", "error"}, chord_change \in ChordChangeMillisChoices :
           \E done \in 0..Len(TurnNow(chord_change)), passed \in PassedMillisChoices :
               ProgramLoopRaises(kind, done, chord_change, passed)
    \/ ProgramFinally

----------------------------------------------------------------------------
(* Claims on the generative programs *)

\* C16: when a piano generative program has left its loop and given up the
\* engine connection, no grain cloud (active, or faded and not yet freed) is
\* left that was neither freed nor released.
C16_CloudsReleasedBeforeQuit ==
    (gp_server = "quit" /\ KeepsClouds(gp_program)) => gp_nodes = {}

\* C17: once the server is booted, a program that has exited, however it
\* exited, has called server.quit().
C17_QuitOnEveryExit ==
    gp_pc = "exited" => gp_server = "quit"

----------------------------------------------------------------------------
(* play_events_realtime, drum_sampler.py:827-842 *)

MaxPlayEvents == 3

DrumEvent(time, instrument) == [time |-> time, instrument |-> instrument]

DrumEventChoices ==
    {DrumEvent(t, i) : t \in {0, 100, 300}, i \in {"kick_open", "snare_warm"}}

\* the event lists build_events_from_notes and demo_events give: in time order
PlayListChoices ==
    {es \in SeqsUpTo(DrumEventChoices, MaxPlayEvents) :
        \A k \in 1..(Len(es) - 1) : es[k].time <= es[k + 1].time}

\* how long the host takes to come back to the loop
StallMillisChoices == {0, 250}

\* how much longer than asked time.sleep sleeps
OversleepMillisChoices == {0, 10}

\* the tail: time.sleep(3.0)
TailMillis == 3000

DelayNone(event, now, start) == 0

\* line 836
Delay(event, now, start) == Max2(0, event.time - (now - start))

\* what can leave the try block of lines 833-840 early: an exception out of
\* loaded.trigger (RuntimeError "Buffer not loaded", an engine error) or a
\* KeyboardInterrupt
PlayExceptionChoices == {"error", "interrupt"}

PlayInit ==
    /\ rt_events \in PlayListChoices
    /\ rt_clock \in MonotonicChoices
    /\ rt_start = 0
    /\ rt_triggered = <<>>
    /\ rt_status = "start"
    /\ rt_exit = "none"

PlayIdle ==
    /\ rt_events = <<>>
    /\ rt_clock = 0
    /\ rt_start = 0
    /\ rt_triggered = <<>>
    /\ rt_status = "idle"
    /\ rt_exit = "none"

\* lines 828-832: boot, load_kit, sync, start = time.monotonic()
PlayBegin(stall) ==
    /\ rt_status = "start"
    /\ rt_clock' = rt_clock + stall
    /\ rt_start' = rt_clock + stall
    /\ rt_status' = "playing"
    /\ UNCHANGED <<rt_events, rt_triggered, rt_exit>>
    /\ UNCHANGED notPlayVars

\* lines 828-831, outside the try: boot, load_kit (TimeoutError) or sync
\* raises, or Ctrl-C arrives; the exception leaves and server.quit() is not
\* called
PlayBeginRaises(stall, exception) ==
    /\ rt_status = "start"
    /\ rt_clock' = rt_clock + stall
    /\ rt_status' = "raised"
    /\ rt_exit' = exception
    /\ UNCHANGED <<rt_events, rt_start, rt_triggered>>
    /\ UNCHANGED notPlayVars

\* lines 834-839: one event
PlayEvent(stall, oversleep) ==
    /\ rt_status = "playing"
    /\ Len(rt_triggered) < Len(rt_events)
    /\ LET index == Len(rt_triggered)
           event == rt_events[index + 1]
           now == rt_clock + stall
           delay == Delay(event, now, rt_start)
           at == IF delay # 0 THEN now + delay + oversleep ELSE now
       IN  /\ rt_triggered' = Append(rt_triggered,
                                     [event |-> event, event_index |-> index,
                                      now |-> now, at |-> at])
           /\ rt_clock' = at
    /\ UNCHANGED <<rt_events, rt_start, rt_status, rt_exit>>
    /\ UNCHANGED notPlayVars

\* lines 834-839, left early: loaded.trigger raises after the sleep, or a
\* KeyboardInterrupt arrives, as the sleep begins or once it is over
\* (slept_all); the event is not triggered and the loop is left
PlayEventRaises(stall, exception, slept_all) ==
    /\ rt_status = "playing"
    /\ Len(rt_triggered) < Len(rt_events)
    /\ exception = "error" => slept_all
    /\ LET event == rt_events[Len(rt_triggered) + 1]
           now == rt_clock + stall
           delay == Delay(event, now, rt_start)
       IN  rt_clock' = IF slept_all THEN now + delay ELSE now
    /\ rt_status' = "leaving"
    /\ rt_exit' = exception
    /\ UNCHANGED <<rt_events, rt_start, rt_triggered>>
    /\ UNCHANGED notPlayVars

\* line 840
PlayTail(oversleep) ==
    /\ rt_status = "playing"
    /\ Len(rt_triggered) = Len(rt_events)
    /\ rt_clock' = rt_clock + TailMillis + oversleep
    /\ rt_status' = "tail"
    /\ UNCHANGED <<rt_events, rt_start, rt_triggered, rt_exit>>
    /\ UNCHANGED notPlayVars

\* how much of time.sleep(3.0) was slept when it was interrupted
TailSleptChoices == {0, 1500}

\* line 840, left early: a KeyboardInterrupt during time.sleep(3.0), `slept`
\* into it
PlayTailInterrupted(slept) ==
    /\ rt_status = "playing"
    /\ Len(rt_triggered) = Len(rt_events)
    /\ slept < TailMillis
    /\ rt_clock' = rt_clock + slept
    /\ rt_status' = "leaving"
    /\ rt_exit' = "interrupt"
    /\ UNCHANGED <<rt_events, rt_start, rt_triggered>>
    /\ UNCHANGED notPlayVars

\* lines 841-842: finally: server.quit(), however the try block was left
PlayQuit ==
    /\ rt_status \in {"tail", "leaving"}
    /\ rt_status' = "quit"
    /\ UNCHANGED <<rt_events, rt_clock, rt_start, rt_triggered, rt_exit>>
    /\ UNCHANGED notPlayVars

PlayNext ==
    \/ \E stall \in StallMillisChoices : PlayBegin(stall)
    \/ \E stall \in StallMillisChoices, exception \in PlayExceptionChoices :
           PlayBeginRaises(stall, exception)
    \/ \E stall \in StallMillisChoices, oversleep \in OversleepMillisChoices :
           PlayEvent(stall, oversleep)
    \/ \E stall \in StallMillisChoices, exception \in PlayExceptionChoices,
          slept_all \in BOOLEAN :
           PlayEventRaises(stall, exception, slept_all)
    \/ \E oversleep \in OversleepMillisChoices : PlayTail(oversleep)
    \/ \E slept \in TailSleptChoices : PlayTailInterrupted(slept)
    \/ PlayQuit

----------------------------------------------------------------------------
(* Claims on play_events_realtime *)

\* C18: the events are triggered in list order, each once; none before its
\* time has elapsed since the start; one whose time has passed when the loop
\* reaches it is triggered at once; none is skipped or moved ahead. A playback
\* that an exception or Ctrl-C ends has triggered the events before it in
\* this way, and server.quit() follows whenever the try block was entered.
C18_InOrderNeverEarly ==
    /\ \A k \in 1..Len(rt_triggered) :
           /\ rt_triggered[k].event = rt_events[k]
           /\ rt_triggered[k].event_index = k - 1
           /\ rt_triggered[k].at - rt_start >= rt_events[k].time
           /\ rt_triggered[k].now - rt_start >= rt_events[k].time =>
                  rt_triggered[k].at = rt_triggered[k].now
           /\ k > 1 => rt_triggered[k - 1].at <= rt_triggered[k].at
    /\ (rt_status \in {"tail", "quit"} /\ rt_exit = "none") =>
           Len(rt_triggered) = Len(rt_events)
    /\ rt_status = "tail" => rt_exit = "none"

C18_Witness ==
    /\ rt_status = "quit"
    /\ rt_exit = "none"
    /\ Len(rt_events) = 3
    /\ rt_triggered[1].at - rt_start = rt_events[1].time
    /\ rt_triggered[2].at - rt_start > rt_events[2].time
    /\ rt_triggered[2].at = rt_triggered[2].now
    /\ rt_triggered[3].at > rt_triggered[3].now

----------------------------------------------------------------------------
(* Claims on the tempo map *)

\* parse_midicsv_file: until a Tempo row has been handled the ticks are timed
\* at the default tempo (holds under SpecPiano)
PianoDefaultBeforeFirstTempo ==
    (pf_kind = "csv" /\ pf_status \in {"walking", "returned"}
        /\ \A k \in 1..(pf_pos - 1) : pf_rows[k].row.type # "Tempo") =>
            /\ pf_tempo = PianoDefaultTempo
            /\ pf_current_time = (pf_last_tick * PianoDefaultTempo) \div pf_ticks_per_beat[1]

FirstTempoTick(tempos) ==
    CHOOSE t \in {tempos[i][1] : i \in 1..Len(tempos)} :
        \A i \in 1..Len(tempos) : t <= tempos[i][1]

\* C19: the tempo map walked is sorted by tick and starts at tick 0; with no
\* tempo entry at tick 0, the ticks before the first entry are timed at the
\* default 500000 microseconds per beat, in convert_ticks_to_seconds as in
\* parse_midicsv_file.
C19_TempoMapFromTickZero ==
    /\ PianoDefaultBeforeFirstTempo
    /\ cv_done =>
           LET tempo_map == TempoMap(cv_tempos)
           IN  /\ \A i \in 1..(Len(tempo_map) - 1) : tempo_map[i][1] <= tempo_map[i + 1][1]
               /\ tempo_map[1][1] = 0
               /\ \A i \in 1..Len(cv_events) :
                      (cv_tempos = <<>> \/ cv_events[i][1] <= FirstTempoTick(cv_tempos)) =>
                          cv_result[i][1] =
                              (cv_events[i][1] * DefaultTempo) \div cv_ticks_per_beat

----------------------------------------------------------------------------
(* apply_mapping_overrides, drum_sampler.py:759-769 *)

MaxOverrides == 3

\* INSTRUMENTS = build_instruments(), lines 153-348: the instruments in the
\* order they are built, each with its midi_notes and the velocity_hint of
\* each of its layers
TriggerCatalog ==
    <<[name |-> "kick_open", midi_notes |-> <<35, 36>>,
       layers |-> <<15, 32, 48, 64, 90, 110, 124>>],
      [name |-> "kick_muted", midi_notes |-> <<34>>,
       layers |-> <<28, 52, 74, 108, 123>>],
      [name |-> "kick_punchy", midi_notes |-> <<41>>,
       layers |-> <<20, 45, 72, 118>>],
      [name |-> "snare_bright", midi_notes |-> <<38>>,
       layers |-> <<25, 50, 75, 95, 115, 124>>],
      [name |-> "snare_warm", midi_notes |-> <<40>>,
       layers |-> <<20, 40, 65, 90, 110, 124>>],
      [name |-> "snare_rimshot", midi_notes |-> <<39>>,
       layers |-> <<70, 100, 120>>],
      [name |-> "side_stick", midi_notes |-> <<37>>,
       layers |-> <<35, 55, 75, 95>>],
      [name |-> "tom_high", midi_notes |-> <<48, 50>>,
       layers |-> <<30, 55, 75, 95, 115>>],
      [name |-> "tom_low", midi_notes |-> <<45, 47>>,
       layers |-> <<35, 60, 78, 96, 116>>],
      [name |-> "bongo_hi", midi_notes |-> <<60>>,
       layers |-> <<60, 95>>],
      [name |-> "bongo_low", midi_notes |-> <<61>>,
       layers |-> <<55, 90>>],
      [name |-> "ethnic_low_open", midi_notes |-> <<46, 49, 51>>,
       layers |-> <<28, 64, 100, 118>>],
      [name |-> "ethnic_stick", midi_notes |-> <<42, 44>>,
       layers |-> <<20, 40, 65, 85, 110, 124>>],
      [name |-> "ethnic_hand", midi_notes |-> <<68>>,
       layers |-> <<15, 35, 55, 75, 100>>]>>

TriggerNames == {TriggerCatalog[i].name : i \in 1..Len(TriggerCatalog)}

\* A string is given by its pieces, in order: a digit, "=", a space, "+", "-",
\* "_", or a run of other characters. The instrument names of the catalog are
\* one piece each.
CatalogNames == {<<name>> : name \in TriggerNames}

OverrideChoices ==
    {<<"3", "6", "=", "kick_muted">>,
     <<"3", "6", "=", "snare_warm">>,
     <<"3", "8", "=", "snare_warm">>,
     <<"3", "6", "=", "unknown">>,
     <<"3", "6", "=", "kick_muted", "=", "x">>,
     <<"x", "=", "kick_open">>,
     <<"kick_open">>,
     <<"-", "1", "=", "kick_open">>,
     <<" ", "+", "3", "_", "6", " ", "=", "snare_warm">>,
     <<"3", "_", "_", "6", "=", "kick_muted">>}

BaseChoices ==
    {[n \in {36} |-> <<"kick_open">>],
     [n \in {36, 42} |-> IF n = 36 THEN <<"kick_open">> ELSE <<"snare_warm">>]}

Digits == <<"0", "1", "2", "3", "4", "5", "6", "7", "8", "9">>

DigitValue(piece) == (CHOOSE d \in 1..Len(Digits) : Digits[d] = piece) - 1

\* line 762: "=" in item
HasEquals(item) == \E k \in 1..Len(item) : item[k] = "="

\* line 764: item.split("=", 1)
SplitAtFirstEquals(item) ==
    LET k == CHOOSE i \in 1..Len(item) :
                 item[i] = "=" /\ \A j \in 1..(i - 1) : item[j] # "="
    IN  [note_str |-> SubSeq(item, 1, k - 1), instrument |-> SubSeq(item, k + 1, Len(item))]

\* str.strip() of the conversion: the string without its leading and trailing
\* spaces
Stripped(str) ==
    LET inked == {k \in 1..Len(str) : str[k] # " "}
    IN  IF inked = {} THEN <<>>
        ELSE SubSeq(str, CHOOSE k \in inked : \A j \in inked : k <= j,
                         CHOOSE k \in inked : \A j \in inked : j <= k)

\* the string after its sign, if it has one
Unsigned(str) == IF str # <<>> /\ str[1] \in {"+", "-"} THEN Tail(str) ELSE str

\* line 765: int(note_str) raises ValueError unless note_str is, between
\* optional spaces, an optional sign and digits, with single underscores
\* allowed between digits
IsInt(note_str) ==
    LET body == Unsigned(Stripped(note_str))
    IN  /\ body # <<>>
        /\ \A k \in 1..Len(body) : body[k] \in SeqRange(Digits) \cup {"_"}
        /\ body[1] # "_" /\ body[Len(body)] # "_"
        /\ \A k \in 1..(Len(body) - 1) : ~(body[k] = "_" /\ body[k + 1] = "_")

RECURSIVE DigitsValue(_)
DigitsValue(digits) ==
    IF digits = <<>> THEN 0
    ELSE 10 * DigitsValue(SubSeq(digits, 1, Len(digits) - 1))
             + DigitValue(digits[Len(digits)])

\* line 765: int(note_str), for a note_str that is a number
ParseInt(note_str) ==
    LET stripped == Stripped(note_str)
        value == DigitsValue(SelectSeq(Unsigned(stripped), LAMBDA piece : piece # "_"))
    IN  IF stripped[1] = "-" THEN 0 - value ELSE value

\* dict[key] = value
SetKey(dict, key, value) ==
    [k \in (DOMAIN dict) \cup {key} |-> IF k = key THEN value ELSE dict[k]]

StoreAliased(st, note, instrument) ==
    [st EXCEPT !.mapping = SetKey(st.mapping, note, instrument),
               !.base = SetKey(st.base, note, instrument)]

\* line 768: mapping[note] = instrument, mapping being the copy dict(base) of line 760
Store(st, note, instrument) ==
    [st EXCEPT !.mapping = SetKey(st.mapping, note, instrument)]

RECURSIVE ApplyFrom(_, _, _)
\* lines 761-768: the loop, from item k
ApplyFrom(overrides, k, st) ==
    IF k > Len(overrides) THEN st
    ELSE IF ~HasEquals(overrides[k]) THEN ApplyFrom(overrides, k + 1, st)
    ELSE LET parts == SplitAtFirstEquals(overrides[k])
         IN  IF ~IsInt(parts.note_str) THEN [st EXCEPT !.raised = TRUE]
             ELSE IF parts.instrument \notin CatalogNames THEN [st EXCEPT !.raised = TRUE]
             ELSE ApplyFrom(overrides, k + 1,
                            Store(st, ParseInt(parts.note_str), parts.instrument))

apply_mapping_overrides(base, overrides) ==
    ApplyFrom(overrides, 1, [base |-> base, mapping |-> base, raised |-> FALSE])

MappingInit ==
    /\ mo_given \in BaseChoices
    /\ mo_base = mo_given
    /\ mo_overrides \in SeqsUpTo(OverrideChoices, MaxOverrides)
    /\ mo_result = <<>>
    /\ mo_status = "start"

MappingIdle ==
    /\ mo_given = <<>>
    /\ mo_base = <<>>
    /\ mo_overrides = <<>>
    /\ mo_result = <<>>
    /\ mo_status = "idle"

\* One call apply_mapping_overrides(base, overrides).
ApplyOverrides ==
    /\ mo_status = "start"
    /\ LET end == apply_mapping_overrides(mo_base, mo_overrides)
       IN  /\ mo_base' = end.base
           /\ mo_status' = IF end.raised THEN "raised" ELSE "returned"
           /\ mo_result' = IF end.raised THEN <<>> ELSE <<end.mapping>>
    /\ UNCHANGED <<mo_given, mo_overrides>>
    /\ UNCHANGED notMappingVars

----------------------------------------------------------------------------
(* Claims on apply_mapping_overrides *)

\* the items of the form note=instrument
OverrideItems == {i \in 1..Len(mo_overrides) : HasEquals(mo_overrides[i])}

NamesUnknownInstrument(i) ==
    SplitAtFirstEquals(mo_overrides[i]).instrument \notin CatalogNames

NoteIsNotANumber(i) == ~IsInt(SplitAtFirstEquals(mo_overrides[i]).note_str)

NoteOf(i) == ParseInt(SplitAtFirstEquals(mo_overrides[i]).note_str)

\* the base mapping with every override applied, the last one of a note winning
ExpectedMapping ==
    LET notes == {NoteOf(i) : i \in OverrideItems}
        LastFor(n) == CHOOSE i \in OverrideItems :
                          NoteOf(i) = n /\ \A j \in OverrideItems : NoteOf(j) = n => j <= i
    IN  [n \in (DOMAIN mo_given) \cup notes |->
            IF n \in notes THEN SplitAtFirstEquals(mo_overrides[LastFor(n)]).instrument
            ELSE mo_given[n]]

\* C20 as stated: ValueError when an override names an instrument absent from
\* the catalog, otherwise the base mapping with the overrides applied in list
\* order is returned; the base mapping given is never modified.
C20_RaisesForUnknownInstrumentOnly ==
    mo_status \in {"returned", "raised"} =>
        /\ mo_base = mo_given
        /\ IF \E i \in OverrideItems : NamesUnknownInstrument(i)
           THEN mo_status = "raised"
           ELSE mo_status = "returned" /\ mo_result = <<ExpectedMapping>>

\* C20, amended: ValueError when an override has a note that is not a number
\* or names an instrument absent from the catalog, otherwise the base mapping
\* with the overrides applied in list order is returned; the base mapping
\* given is never modified.
C20_OverridesApplied ==
    mo_status \in {"returned", "raised"} =>
        /\ mo_base = mo_given
        /\ IF \E i \in OverrideItems : NoteIsNotANumber(i) \/ NamesUnknownInstrument(i)
           THEN mo_status = "raised"
           ELSE mo_status = "returned" /\ mo_result = <<ExpectedMapping>>

C20_Witness ==
    /\ mo_status = "returned"
    /\ mo_overrides = <<<<"3", "6", "=", "kick_muted">>, <<"kick_open">>,
                        <<" ", "+", "3", "_", "6", " ", "=", "snare_warm">>>>
    /\ mo_result[1][36] = <<"snare_warm">>
    /\ mo_base[36] = <<"kick_open">>

----------------------------------------------------------------------------
(* LoadedKit.trigger and the programs that call it,
   drum_sampler.py:523-565, 772-788, 827-842, 1075-1139, 1328-1368 *)

MaxTriggers == 3

PositionOf(name) == CHOOSE i \in 1..Len(TriggerCatalog) : TriggerCatalog[i].name = name

TriggerEvent(time, instrument, velocity) ==
    [time |-> time, instrument |-> instrument, velocity |-> velocity]

\* the events of a list: at velocity 40 two layers of kick_open are equally
\* near (32 and 48) and one layer of snare_warm is nearest (40); no instrument
\* of the catalog is called cowbell
TriggerEventChoices ==
    {TriggerEvent(t, i, 40) : t \in {0, 400}, i \in {"kick_open", "snare_warm", "cowbell"}}

\* <<status, note, velocity>> as rtmidi hands it to the callback
MidiMessageIn == {<<144, 36, 50>>, <<144, 36, 40>>, <<145, 38, 50>>, <<144, 36, 0>>,
                  <<128, 36, 50>>, <<144, 99, 50>>, <<144, 49, 50>>, <<144, 57, 46>>}

\* lines 1083-1096: the two gestures run_ambient_01 triggers before its loop
FirstGestures ==
    <<TriggerEvent(0, "ethnic_hand", 55), TriggerEvent(0, "tom_low", 48)>>

\* lines 1098-1107: gesture_instruments, which random.choice draws from
GestureInstruments ==
    <<"snare_warm", "snare_rimshot", "tom_high", "tom_low", "bongo_hi", "bongo_low",
      "ethnic_low_open", "kick_punchy">>

\* line 1127: random.randint(28, 70); two layers of ethnic_low_open are equally
\* near 46, two of tom_low equally near 69
GestureVelocityChoices == {28, 46, 69, 70}

\* lines 749-752: every midi note of every instrument, a later instrument
\* taking the note of an earlier one
CatalogMapping ==
    [note \in UNION {SeqRange(TriggerCatalog[i].midi_notes) : i \in 1..Len(TriggerCatalog)} |->
        LET Has(i) == note \in SeqRange(TriggerCatalog[i].midi_notes)
            last == CHOOSE i \in 1..Len(TriggerCatalog) :
                        Has(i) /\ \A j \in (i + 1)..Len(TriggerCatalog) : ~Has(j)
        IN  TriggerCatalog[last].name]

\* mapping.setdefault(note, name): a note that has a name keeps it
SetDefault(mapping, note, name) ==
    [n \in DOMAIN mapping \cup {note} |-> IF n \in DOMAIN mapping THEN mapping[n] ELSE name]

\* default_mapping(), lines 748-756
TriggerMapping ==
    SetDefault(SetDefault(SetDefault(CatalogMapping, 49, "ethnic_low_open"),
                          51, "ethnic_low_open"),
               57, "ethnic_low_open")

\* the calls of each function that touch the server, the kit or the MIDI port,
\* in program order
BuildScoreSteps == <<"load_kit", "triggers", "return">>

PlaySteps == <<"boot", "load_kit", "sync", "triggers", "quit">>

\* run_ambient_01: boot 927, load_kit 934, sync 936, the gestures 1083-1133,
\* quit 1139
AmbientSteps == <<"boot", "load_kit", "sync", "triggers", "quit">>

MidiInStepsCallbackFirst == <<"boot", "set_callback", "load_kit", "sync", "listen">>

\* handle_midi_in, lines 1341-1368
MidiInSteps == <<"boot", "load_kit", "sync", "set_callback", "listen">>

StepsOf(program) ==
    CASE program = "build_score" -> BuildScoreSteps
      [] program = "play_events_realtime" -> PlaySteps
      [] program = "run_ambient_01" -> AmbientSteps
      [] program = "handle_midi_in" -> MidiInSteps
      [] OTHER -> <<>>

AtStep(name) ==
    /\ tk_status = "running"
    /\ tk_step <= Len(StepsOf(tk_program))
    /\ StepsOf(tk_program)[tk_step] = name

\* what load_kit returns for the catalog: its instruments with _rotation 0, and
\* for each the loaded layers in catalog order
LoadedInstruments ==
    [name \in TriggerNames |->
        [layers |-> TriggerCatalog[PositionOf(name)].layers, rotation |-> LoadedRotation(0)]]

LoadedLayers ==
    LET counts == [i \in 1..Len(TriggerCatalog) |-> Len(TriggerCatalog[i].layers)]
        table == AddBuffers([i \in 1..Len(counts) |-> <<>>], CatalogLayers(counts, 1), 1)
    IN  [name \in TriggerNames |-> table[PositionOf(name)]]

NoKit == [name \in {} |-> <<>>]

LookupDefaulting(instruments, name) ==
    IF name \in DOMAIN instruments THEN <<name>>
    ELSE <<CHOOSE n \in DOMAIN instruments : TRUE>>

\* line 534: self.instruments[event.instrument]; <<>> stands for the KeyError
Lookup(instruments, name) ==
    IF name \in DOMAIN instruments THEN <<name>> ELSE <<>>

\* no Buffer object
NoBuffer == 0 - 1

\* lines 537-540: the loaded layer of the template's path, else the first
LoadedLayerOf(loaded_layers, template_layer) ==
    LET SamePath(l) == l.layer = template_layer
        found == SelectSeq(loaded_layers, SamePath)
    IN  IF found # <<>> THEN found[1] ELSE loaded_layers[1]

\* lines 534-565: the kit after the call, the synth added and the exception raised
trigger(instruments, table, context, event, event_index) ==
    LET key == Lookup(instruments, event.instrument)
    IN  IF key = <<>>
        THEN [raised |-> "KeyError", instruments |-> instruments, synth |-> <<>>]
        ELSE LET instrument == instruments[key[1]]
                 chosen == choose_layer(instrument.layers, instrument.rotation,
                                        event.velocity, event_index)
                 after == [instruments EXCEPT ![key[1]].rotation = chosen.rotation]
                 layer == LoadedLayerOf(table[key[1]], chosen.layer)
             IN  IF layer.buffer = NoBuffer
                 THEN [raised |-> "RuntimeError", instruments |-> after, synth |-> <<>>]
                 ELSE [raised |-> "", instruments |-> after,
                       synth |-> <<[instrument |-> key[1], layer |-> layer.layer,
                                    buffer_id |-> layer.buffer,
                                    at |-> IF context = "Score" THEN <<event.time>>
                                           ELSE <<>>]>>]

ContextOf(program) == IF program = "build_score" THEN "Score" ELSE "Server"

NoTrigger ==
    [event |-> TriggerEvent(0, "", 0), event_index |-> <<>>, raised |-> "",
     kit_returned |-> FALSE, instruments_before |-> NoKit, layers_before |-> NoKit,
     synths_before |-> 0, calls |-> 0]

TriggerInit ==
    /\ tk_program \in {"build_score", "play_events_realtime", "run_ambient_01",
                       "handle_midi_in"}
    /\ tk_step = 1
    /\ tk_trace = <<>>
    /\ tk_events \in IF tk_program \in {"build_score", "play_events_realtime"}
                     THEN SeqsUpTo(TriggerEventChoices, MaxTriggers)
                     ELSE {<<>>}
    /\ tk_index = 0
    /\ tk_callback = FALSE
    /\ tk_instruments = NoKit
    /\ tk_layers = NoKit
    /\ tk_synths = <<>>
    /\ tk_call = NoTrigger
    /\ tk_status = "running"

TriggerIdle ==
    /\ tk_program = "none"
    /\ tk_step = 1
    /\ tk_trace = <<>>
    /\ tk_events = <<>>
    /\ tk_index = 0
    /\ tk_callback = FALSE
    /\ tk_instruments = NoKit
    /\ tk_layers = NoKit
    /\ tk_synths = <<>>
    /\ tk_call = NoTrigger
    /\ tk_status = "idle"

\* server.boot() / server.sync(): the kit is not touched
TriggerServerStep ==
    /\ AtStep("boot") \/ AtStep("sync")
    /\ tk_step' = tk_step + 1
    /\ tk_trace' = Append(tk_trace, StepsOf(tk_program)[tk_step])
    /\ UNCHANGED <<tk_program, tk_events, tk_index, tk_callback, tk_instruments, tk_layers,
                   tk_synths, tk_call, tk_status>>
    /\ UNCHANGED notTriggerVars

\* loaded = load_kit(...): lines 779, 830, 934, 1343
TriggerLoadKit ==
    /\ AtStep("load_kit")
    /\ tk_instruments' = LoadedInstruments
    /\ tk_layers' = LoadedLayers
    /\ tk_step' = tk_step + 1
    /\ tk_trace' = Append(tk_trace, StepsOf(tk_program)[tk_step])
    /\ UNCHANGED <<tk_program, tk_events, tk_index, tk_callback, tk_synths, tk_call, tk_status>>
    /\ UNCHANGED notTriggerVars

\* midi_in.set_callback(callback), line 1360
TriggerSetCallback ==
    /\ AtStep("set_callback")
    /\ tk_callback' = TRUE
    /\ tk_step' = tk_step + 1
    /\ tk_trace' = Append(tk_trace, StepsOf(tk_program)[tk_step])
    /\ UNCHANGED <<tk_program, tk_events, tk_index, tk_instruments, tk_layers, tk_synths,
                   tk_call, tk_status>>
    /\ UNCHANGED notTriggerVars

\* one call loaded.trigger(event, event_index=...) and what it leaves behind
TriggerCall(event, event_index) ==
    LET kit_returned == tk_instruments # NoKit
        r == IF kit_returned
             THEN trigger(tk_instruments, tk_layers, ContextOf(tk_program), event, event_index)
             ELSE [raised |-> "NameError", instruments |-> tk_instruments, synth |-> <<>>]
    IN  /\ tk_instruments' = r.instruments
        /\ tk_synths' = tk_synths \o r.synth
        /\ tk_call' = [event |-> event, event_index |-> event_index, raised |-> r.raised,
                       kit_returned |-> kit_returned,
                       instruments_before |-> tk_instruments, layers_before |-> tk_layers,
                       synths_before |-> Len(tk_synths), calls |-> tk_call.calls + 1]
        /\ UNCHANGED tk_layers

\* lines 780-781 and 834-839: the next event of the list, with its index
TriggerListed ==
    /\ AtStep("triggers")
    /\ tk_program \in {"build_score", "play_events_realtime"}
    /\ tk_index < Len(tk_events)
    /\ TriggerCall(tk_events[tk_index + 1], <<tk_index>>)
    /\ tk_index' = tk_index + 1
    /\ tk_status' = IF tk_call'.raised # "" THEN "raised" ELSE "running"
    /\ UNCHANGED <<tk_program, tk_step, tk_trace, tk_events, tk_callback>>
    /\ UNCHANGED notTriggerVars

\* lines 1083-1096 and 1124-1133: a gesture of run_ambient_01, no event_index:
\* the two before the loop, then those of the loop, each of an instrument and
\* a velocity drawn at random
TriggerGesture(instrument, velocity) ==
    /\ AtStep("triggers")
    /\ tk_program = "run_ambient_01"
    /\ tk_index < MaxTriggers
    /\ instrument \in SeqRange(GestureInstruments)
    /\ TriggerCall(IF tk_index < Len(FirstGestures) THEN FirstGestures[tk_index + 1]
                   ELSE TriggerEvent(0, instrument, velocity), <<>>)
    /\ tk_index' = tk_index + 1
    /\ tk_status' = IF tk_call'.raised # "" THEN "raised" ELSE "running"
    /\ UNCHANGED <<tk_program, tk_step, tk_trace, tk_events, tk_callback>>
    /\ UNCHANGED notTriggerVars

\* lines 1347-1358: the callback, run by the MIDI thread for one message
TriggerMidiCallback(message) ==
    /\ tk_program = "handle_midi_in"
    /\ tk_status = "running"
    /\ tk_callback
    /\ tk_index < MaxTriggers
    /\ tk_index' = tk_index + 1
    /\ LET status == (message[1] \div 16) * 16
           note == message[2]
           velocity == message[3]
       IN  IF status = 144 /\ velocity > 0 /\ note \in DOMAIN TriggerMapping
           THEN TriggerCall(TriggerEvent(0, TriggerMapping[note], velocity), <<>>)
           ELSE UNCHANGED <<tk_instruments, tk_layers, tk_synths, tk_call>>
    /\ UNCHANGED <<tk_program, tk_step, tk_trace, tk_events, tk_callback, tk_status>>
    /\ UNCHANGED notTriggerVars

\* the loop ends: lines 782-788, 840-842, 1138-1139, 1364-1368
TriggerFinish ==
    /\ \/ AtStep("triggers") /\ tk_program = "run_ambient_01"
                               /\ tk_index >= Len(FirstGestures)
       \/ AtStep("triggers") /\ tk_program # "run_ambient_01" /\ tk_index = Len(tk_events)
       \/ AtStep("listen")
    /\ tk_status' = "returned"
    /\ tk_callback' = FALSE
    /\ UNCHANGED <<tk_program, tk_step, tk_trace, tk_events, tk_index, tk_instruments, tk_layers,
                   tk_synths, tk_call>>
    /\ UNCHANGED notTriggerVars

TriggerNext ==
    \/ TriggerServerStep
    \/ TriggerLoadKit
    \/ TriggerSetCallback
    \/ TriggerListed
    \/ \E instrument \in SeqRange(GestureInstruments), velocity \in GestureVelocityChoices :
           TriggerGesture(instrument, velocity)
    \/ \E message \in MidiMessageIn : TriggerMidiCallback(message)
    \/ TriggerFinish

----------------------------------------------------------------------------
(* Claims on LoadedKit.trigger *)

\* C21: a trigger whose event names an instrument the loaded kit does not hold
\* ends in a KeyError that the caller sees: no synth is added, no _rotation
\* changes and no other instrument stands in for the missing one.
C21_UnknownInstrumentRaises ==
    (tk_call.calls > 0 /\ tk_call.kit_returned
        /\ tk_call.event.instrument \notin DOMAIN tk_call.instruments_before) =>
        /\ tk_call.raised = "KeyError"
        /\ tk_status = "raised"
        /\ Len(tk_synths) = tk_call.synths_before
        /\ tk_instruments = tk_call.instruments_before

C21_Witness ==
    /\ tk_call.event.instrument = "cowbell"
    /\ tk_call.kit_returned
    /\ tk_call.raised = "KeyError"
    /\ tk_call.event_index = <<2>>
    /\ Len(tk_synths) = 2
    /\ tk_program = "play_events_realtime"

----------------------------------------------------------------------------
(* Claims on the rows the drum parser keeps *)

\* the rows of the file that have a velocity field and are note-ons with velocity > 0
SoundingNoteOns ==
    LET Sounding(row) == /\ row.n >= 6
                         /\ row.type = "Note_on_c"
                         /\ Field(row, 5) > 0
    IN  SelectSeq(dc_file, Sounding)

\* the Tempo rows of the file that have a tempo field
TempoRows ==
    LET IsTempo(row) == row.n >= 4 /\ row.type = "Tempo"
    IN  SelectSeq(dc_file, IsTempo)

\* the Header rows of the file that have a division field
HeaderRows ==
    LET IsHeader(row) == row.n >= 6 /\ row.type = "Header"
    IN  SelectSeq(dc_file, IsHeader)

\* C22: the drum parse_midicsv returns, in file order, one <<tick, note,
\* velocity>> per Note_on_c row with velocity > 0 and nothing for Note_off_c
\* rows and zero-velocity note-ons, one <<tick, tempo>> per Tempo row, and the
\* ticks per beat of the Header row; other rows and rows of fewer than three
\* fields add nothing.
C22_RowsKept ==
    dc_status = "returned" =>
        /\ dc_events = [k \in 1..Len(SoundingNoteOns) |->
                           <<SoundingNoteOns[k].tick, Field(SoundingNoteOns[k], 4),
                             Field(SoundingNoteOns[k], 5)>>]
        /\ dc_tempos = [k \in 1..Len(TempoRows) |->
                           <<TempoRows[k].tick, Field(TempoRows[k], 3)>>]
        /\ HeaderRows # <<>> =>
               dc_ticks_per_beat = Field(HeaderRows[Len(HeaderRows)], 5)

C22_Witness ==
    /\ dc_status = "returned"
    /\ dc_file = <<CsvRow(0, "Header", <<1, 2, 96>>), CsvRow(241, "Note_off_c", <<0, 36, 64>>),
                   CsvRow(241, "Note_on_c", <<0, 38, 127>>)>>
    /\ dc_events = <<<<241, 38, 127>>>>
    /\ dc_ticks_per_beat = 96

----------------------------------------------------------------------------
(* Claims on the grain clouds of the piano programs *)

SpawnedIn(turn) == {n \in DOMAIN gp_voices : gp_voices[n].spawned_turn = turn}

\* the turns after the spawn of a grain cloud in which grain clouds were spawned
LaterSpawnTurns(n) ==
    {gp_voices[m].spawned_turn : m \in {k \in DOMAIN gp_voices :
                                            gp_voices[k].spawned_turn > gp_voices[n].spawned_turn}}

\* C23: in run_background_01 and the piano run_ambient_01, a harmony change
\* sets the amplitude of every grain cloud active until then to 0 and spawns
\* the clouds of the new harmony in the same turn of the loop: clouds are
\* spawned in the loop only in the turn that fades the ones before them, and
\* while the loop goes on every fade has come with a full spawn in its turn. A
\* faded cloud is freed only in a later turn, 9 s or more after its fade, and
\* no cloud is freed that was not faded.
C23_FadeThenFreeLater ==
    KeepsClouds(gp_program) =>
        \A n \in DOMAIN gp_voices :
            LET v == gp_voices[n]
            IN  /\ LaterSpawnTurns(n) # {} =>
                       /\ v.faded_turn > v.spawned_turn
                       /\ \A t \in LaterSpawnTurns(n) : v.faded_turn <= t
                       /\ v.faded_turn \in LaterSpawnTurns(n)
                /\ v.faded_turn > 0 =>
                       /\ v.amp = "zero"
                       /\ gp_exit \in {"none", "duration"} =>
                              Cardinality(SpawnedIn(v.faded_turn)) = Len(ChordNotes)
                /\ v.frees > 0 =>
                       /\ v.faded_turn > 0
                       /\ v.freed_turn > v.faded_turn
                       /\ v.freed_at >= v.faded_at + 9000

C23_Witness ==
    /\ gp_program = "piano.run_background_01"
    /\ \E n \in DOMAIN gp_voices :
           /\ gp_voices[n].frees = 1
           /\ gp_voices[n].freed_at = gp_voices[n].faded_at + 10000
           /\ gp_voices[n].freed_turn = gp_voices[n].faded_turn + 2
    /\ \E n \in DOMAIN gp_voices :
           gp_voices[n].faded_turn > 0 /\ gp_voices[n].frees = 0

\* where a grain cloud is held: the active list, entries of pending_free
HoldersOf(n) ==
    (IF n \in gp_active_clouds THEN {0} ELSE {})
        \cup {j \in 1..Len(gp_pending_free) : n \in gp_pending_free[j].synths}

\* C24: in the piano generative loops every grain cloud ever spawned is, until
\* it is freed, held in exactly one place (the active list or one pending_free
\* entry); it is freed at most once, by a turn of the loop that spawned it, and
\* nothing is set on it once it is freed.
C24_OneOwnerFreedOnce ==
    KeepsClouds(gp_program) =>
        \A n \in DOMAIN gp_voices :
            LET v == gp_voices[n]
            IN  /\ v.frees <= 1
                /\ ~v.set_after_free
                /\ v.frees = 0 => Cardinality(HoldersOf(n)) = 1
                /\ v.frees = 1 =>
                       /\ HoldersOf(n) = {}
                       /\ v.freed_turn \in 1..gp_turn
                       /\ n \notin gp_nodes

----------------------------------------------------------------------------
(* Claims on the buffer table of a loaded kit *)

\* the position of a step in the steps taken; 0 when it was not taken
TakenAt(name) ==
    IF \E k \in 1..Len(tk_trace) : tk_trace[k] = name
    THEN CHOOSE k \in 1..Len(tk_trace) : tk_trace[k] = name
    ELSE 0

\* C25: kit.layers is written by load_kit only: it is empty until load_kit has
\* returned and the table load_kit built from then on; every trigger (of an
\* event list, of a gesture, of the MIDI callback) is called after load_kit has
\* returned and leaves the table as it found it, and the MIDI callback is
\* registered only after load_kit and server.sync().
C25_TableWrittenByLoadOnly ==
    /\ tk_layers = IF TakenAt("load_kit") > 0 THEN LoadedLayers ELSE NoKit
    /\ tk_call.calls > 0 =>
           /\ tk_call.kit_returned
           /\ TakenAt("load_kit") > 0
           /\ tk_call.layers_before = tk_layers
    /\ (tk_callback \/ TakenAt("set_callback") > 0) =>
           /\ 0 < TakenAt("load_kit")
           /\ TakenAt("load_kit") < TakenAt("sync")
           /\ TakenAt("sync") < TakenAt("set_callback")

C25_Witness ==
    /\ tk_program = "handle_midi_in"
    /\ tk_callback
    /\ tk_call.calls = 2
    /\ tk_call.event.instrument = "kick_open"
    /\ tk_call.instruments_before["kick_open"].rotation = 1
    /\ tk_instruments["kick_open"].rotation = 0
    /\ Len(tk_synths) = 2
    /\ tk_layers = LoadedLayers

----------------------------------------------------------------------------
(* _euclidean_pattern, piano_sampler.py:969-977, and its rotation, 1287-1292 *)

MaxPatternSteps == 16

StepsChoices == (0 - 1)..MaxPatternSteps

PulsesChoices == (0 - 2)..(MaxPatternSteps + 1)

EuclidHitFromTheFront(i, pulses, steps) == i < pulses

\* line 977: (i * pulses) % steps < pulses
EuclidHit(i, pulses, steps) == (i * pulses) % steps < pulses

\* lines 970-977; position k of the sequence is index k - 1 of the list
euclidean_pattern(pulses, steps) ==
    IF steps <= 0 THEN <<>>
    ELSE LET clamped == Max2(0, Min2(pulses, steps))
         IN  IF clamped = 0 THEN [k \in 1..steps |-> 0]
             ELSE IF clamped = steps THEN [k \in 1..steps |-> 1]
             ELSE [k \in 1..steps |-> IF EuclidHit(k - 1, clamped, steps) THEN 1 ELSE 0]

\* lines 1292, 1329: pattern[shift:] + pattern[:shift]
Rotated(pattern, shift) ==
    SubSeq(pattern, shift + 1, Len(pattern)) \o SubSeq(pattern, 1, shift)

EuclidInit ==
    /\ eu_pulses \in PulsesChoices
    /\ eu_steps \in StepsChoices
    /\ eu_returned = <<>>
    /\ eu_pattern = <<>>
    /\ eu_shift = <<>>
    /\ eu_status = "start"

EuclidIdle ==
    /\ eu_pulses = 0
    /\ eu_steps = 0
    /\ eu_returned = <<>>
    /\ eu_pattern = <<>>
    /\ eu_shift = <<>>
    /\ eu_status = "idle"

\* pattern = _euclidean_pattern(pattern_pulses, pattern_steps)
EuclidBuild ==
    /\ eu_status = "start"
    /\ eu_returned' = euclidean_pattern(eu_pulses, eu_steps)
    /\ eu_pattern' = euclidean_pattern(eu_pulses, eu_steps)
    /\ eu_status' = "built"
    /\ UNCHANGED <<eu_pulses, eu_steps, eu_shift>>
    /\ UNCHANGED notEuclidVars

\* lines 1290-1292: if pattern: shift = rng.randrange(len(pattern)); rotate
EuclidRotate(shift) ==
    /\ eu_status = "built"
    /\ eu_pattern # <<>>
    /\ shift \in 0..(Len(eu_pattern) - 1)
    /\ eu_shift' = <<shift>>
    /\ eu_pattern' = Rotated(eu_pattern, shift)
    /\ eu_status' = "rotated"
    /\ UNCHANGED <<eu_pulses, eu_steps, eu_returned>>
    /\ UNCHANGED notEuclidVars

EuclidNext ==
    \/ EuclidBuild
    \/ \E shift \in 0..MaxPatternSteps : EuclidRotate(shift)

----------------------------------------------------------------------------
(* Claims on _euclidean_pattern *)

OnesOf(pattern) == {k \in 1..Len(pattern) : pattern[k] = 1}

\* from a one at position k, the number of steps to the next one, going round
GapAfter(pattern, k) ==
    CHOOSE d \in 1..Len(pattern) :
        /\ pattern[((k - 1 + d) % Len(pattern)) + 1] = 1
        /\ \A e \in 1..(d - 1) : pattern[((k - 1 + e) % Len(pattern)) + 1] # 1

GapsOf(pattern) == {GapAfter(pattern, k) : k \in OnesOf(pattern)}

\* C26: for steps > 0 _euclidean_pattern returns a list of steps entries, each
\* 0 or 1, with min(max(pulses, 0), steps) ones whose gaps, taken round the
\* cycle, differ by at most 1; for steps <= 0 it returns the empty list; the
\* rotation keeps the length and the number of ones.
C26_EvenPulses ==
    eu_status \in {"built", "rotated"} =>
        /\ eu_steps <= 0 => eu_returned = <<>>
        /\ eu_steps > 0 =>
               /\ Len(eu_returned) = eu_steps
               /\ \A k \in 1..eu_steps : eu_returned[k] \in {0, 1}
               /\ Cardinality(OnesOf(eu_returned)) =
                      (IF eu_pulses < 0 THEN 0
                       ELSE IF eu_pulses > eu_steps THEN eu_steps ELSE eu_pulses)
               /\ \A g, h \in GapsOf(eu_returned) : g - h <= 1
        /\ eu_status = "rotated" =>
               /\ Len(eu_pattern) = Len(eu_returned)
               /\ Cardinality(OnesOf(eu_pattern)) = Cardinality(OnesOf(eu_returned))

C26_Witness ==
    /\ eu_status = "rotated"
    /\ eu_pulses = 5
    /\ eu_steps = 12
    /\ eu_returned = <<1, 0, 0, 1, 0, 1, 0, 0, 1, 0, 1, 0>>
    /\ eu_shift = <<3>>
    /\ eu_pattern = <<1, 0, 1, 0, 0, 1, 0, 1, 0, 1, 0, 0>>
    /\ GapsOf(eu_returned) = {2, 3}

----------------------------------------------------------------------------
(* The tempo of run_background_01, piano_sampler.py:1187-1189, 1281-1282, 1298, 1317-1321, 1439 *)

(* tempo and tempo_target are Python floats.  The product of line 1320 can  *)
(* be far smaller than a tempo, so it is formed and added in wide numbers:   *)
(* naturals in units of 2^-144, held in 16 digits of 12 bits, the lowest     *)
(* first.  The product of two magnitudes is a wide number, exactly.          *)

\* three shifts at the least time between two, and the turns up to a fourth
MaxTempoTurns == 1440

Digit == 2^12

\* time.sleep(0.05), line 1439: the time a turn takes, in milliseconds
TempoTurnMillis == 50

RECURSIVE Carried(_, _, _)
\* the digits from place i on of the number that has s[k] at place k
Carried(s, i, carry) ==
    IF i > Len(s) THEN <<>>
    ELSE LET v == s[i] + carry
         IN  <<v % Digit>> \o Carried(s, i + 1, v \div Digit)

\* a magnitude in eight digits, units of 2^-72
MagDigits(mag) ==
    <<mag[4] % Digit, mag[4] \div Digit, mag[3] % Digit, mag[3] \div Digit,
      mag[2] % Digit, mag[2] \div Digit, mag[1] % Digit, mag[1] \div Digit>>

\* a magnitude as a wide number
Widened(mag) == <<0, 0, 0, 0, 0, 0>> \o MagDigits(mag) \o <<0, 0>>

\* the magnitude of a wide number that has nothing below 2^-72
Narrowed(wide) ==
    Magnitude(wide[14] * Digit + wide[13], wide[12] * Digit + wide[11],
              wide[10] * Digit + wide[9], wide[8] * Digit + wide[7])

RECURSIVE DigitProducts(_, _, _, _)
\* the sum of a[i] * b[j] over i + j = k + 1, from i on
DigitProducts(a, b, k, i) ==
    IF i > Len(a) THEN 0
    ELSE (IF k + 1 - i \in 1..Len(b) THEN a[i] * b[k + 1 - i] ELSE 0)
             + DigitProducts(a, b, k, i + 1)

\* the product of two magnitudes given in eight digits
WideProduct(a, b) == Carried([k \in 1..16 |-> DigitProducts(a, b, k, 1)], 1, 0)

WideSum(a, b) == Carried([k \in 1..16 |-> a[k] + b[k]], 1, 0)

\* a - b for a >= b
WideDifference(a, b) == Carried([k \in 1..16 |-> a[k] + (Digit - 1 - b[k])], 1, 1)

WideLess(a, b) ==
    \E k \in 1..16 : a[k] < b[k] /\ \A j \in (k + 1)..16 : a[j] = b[j]

WideZero == [k \in 1..16 |-> 0]

WideBits(a) ==
    IF a = WideZero THEN 0
    ELSE LET k == CHOOSE j \in 1..16 : a[j] # 0 /\ \A i \in (j + 1)..16 : a[i] = 0
             width == CHOOSE n \in 1..12 : 2^(n - 1) <= a[k] /\ a[k] < 2^n
         IN  12 * (k - 1) + width

\* the lowest drop bits of a wide number
WideLow(a, drop) ==
    [k \in 1..16 |->
        LET n == drop - 12 * (k - 1)
        IN  IF n <= 0 THEN 0 ELSE IF n >= 12 THEN a[k] ELSE a[k] % 2^n]

\* the wide number with the one bit at place drop set, places counted from 0
WidePlace(drop) ==
    [k \in 1..16 |->
        LET n == drop - 12 * (k - 1)
        IN  IF 0 <= n /\ n < 12 THEN 2^n ELSE 0]

WideBitAt(a, drop) == (a[drop \div 12 + 1] \div 2^(drop % 12)) % 2

\* a without its lowest drop bits, which are low, rounded to nearest, ties to even
WideRoundedTo(a, drop, low) ==
    LET half == WidePlace(drop - 1)
        kept == WideDifference(a, low)
        up == \/ WideLess(half, low)
              \/ low = half /\ WideBitAt(a, drop) = 1
    IN  IF up THEN WideSum(kept, WidePlace(drop)) ELSE kept

\* rounding to 53 significant bits
WideRounded(wide) ==
    Only({Only({IF drop <= 0 THEN a
                ELSE Only({WideRoundedTo(a, drop, low) : low \in {WideLow(a, drop)}}) :
                drop \in {WideBits(a) - 53}}) :
          a \in {wide}})

\* x * y of two floats, as a sign and a wide number
FloatProduct(x, y) ==
    [neg |-> x.neg # y.neg,
     wide |-> WideRounded(WideProduct(MagDigits(x.mag), MagDigits(y.mag)))]

\* x + p of a float and a product; the sum is not below 2^-19
FloatPlusProduct(x, p) ==
    LET a == Widened(x.mag)
    IN  IF x.neg = p.neg THEN Float(x.neg, Narrowed(WideRounded(WideSum(a, p.wide))))
        ELSE IF WideLess(a, p.wide)
             THEN Float(p.neg, Narrowed(WideRounded(WideDifference(p.wide, a))))
        ELSE Float(x.neg, Narrowed(WideRounded(WideDifference(a, p.wide))))

\* x * y of two floats whose product is 0 or not below 2^-19
FloatTimes(x, y) ==
    Only({Float(p.neg, Narrowed(p.wide)) : p \in {FloatProduct(x, y)}})

\* x - y of two floats
FloatMinus(x, y) == FloatAdd(x, [neg |-> ~y.neg /\ y.mag # MagZero, mag |-> y.mag])

\* the float of a whole number
Whole(n) == Float(n < 0, Magnitude(Abs(n), 0, 0, 0))

\* --intensity 0, 0.3, 1 and 1.5
IntensityChoices == {Whole(0), Seconds(300), Whole(1), Seconds(1500)}

\* rng.uniform(-3.0, 3.0), line 1281
TempoJitterChoices == {Whole(0 - 3), Whole(3)}

\* rng.uniform(-6.0, 6.0), line 1318
TempoShiftChoices == {Whole(0 - 6), Whole(6)}

\* rng.uniform(18.0, 34.0), lines 1298 and 1319, in milliseconds
ShiftWaitChoices == {18000}

\* line 1188: 0.0 <= intensity <= 1.0
IntensityAllowed(intensity) ==
    ~FloatLess(intensity, Whole(0)) /\ ~FloatLess(Whole(1), intensity)

\* line 1281: 44.0 + (intensity * 18.0) + rng.uniform(-3.0, 3.0)
InitialTempo(intensity, jitter) ==
    FloatAdd(FloatAdd(Whole(44), FloatTimes(intensity, Whole(18))), jitter)

ShiftedTargetNoCeiling(tempo, draw) ==
    LET shifted == FloatAdd(tempo, draw)
    IN  IF FloatLess(Whole(36), shifted) THEN shifted ELSE Whole(36)

\* line 1318: max(36.0, min(72.0, tempo + rng.uniform(-6.0, 6.0)))
ShiftedTarget(tempo, draw) ==
    LET shifted == FloatAdd(tempo, draw)
        capped == IF FloatLess(shifted, Whole(72)) THEN shifted ELSE Whole(72)
    IN  IF FloatLess(Whole(36), capped) THEN capped ELSE Whole(36)

SmoothedAtOnce(tempo, tempo_target) == tempo_target

\* line 1320: tempo += (tempo_target - tempo) * 0.02
Smoothed(tempo, tempo_target) ==
    Only({FloatPlusProduct(tempo, p) :
          p \in {FloatProduct(FloatMinus(tempo_target, tempo), Seconds(20))}})

NoTurn == [tempo |-> Whole(0), tempo_target |-> Whole(0), shifted |-> FALSE]

TempoInit ==
    /\ tp_intensity \in IntensityChoices
    /\ tp_tempo = Whole(0)
    /\ tp_tempo_target = Whole(0)
    /\ tp_clock = 0
    /\ tp_next_tempo_shift = 0
    /\ tp_turn = 0
    /\ tp_prev = NoTurn
    /\ tp_status = "start"

TempoIdle ==
    /\ tp_intensity = Whole(0)
    /\ tp_tempo = Whole(0)
    /\ tp_tempo_target = Whole(0)
    /\ tp_clock = 0
    /\ tp_next_tempo_shift = 0
    /\ tp_turn = 0
    /\ tp_prev = NoTurn
    /\ tp_status = "idle"

\* lines 1187-1189, 1281-1282 and 1298: the intensity check, the first tempo,
\* the time of the first shift; the clock counts from start
TempoSetup(jitter, wait) ==
    /\ tp_status = "start"
    /\ IF ~IntensityAllowed(tp_intensity)
       THEN /\ tp_status' = "raised"
            /\ UNCHANGED <<tp_tempo, tp_tempo_target, tp_next_tempo_shift>>
       ELSE /\ tp_status' = "loop"
            /\ tp_tempo' = InitialTempo(tp_intensity, jitter)
            /\ tp_tempo_target' = InitialTempo(tp_intensity, jitter)
            /\ tp_next_tempo_shift' = wait
    /\ UNCHANGED <<tp_intensity, tp_clock, tp_turn, tp_prev>>
    /\ UNCHANGED notTempoVars

\* lines 1303 and 1317-1321, 1439: one turn of the loop
TempoTurn(draw, wait) ==
    /\ tp_status = "loop"
    /\ tp_turn < MaxTempoTurns
    /\ LET now == tp_clock
           shift_due == now >= tp_next_tempo_shift
       IN  /\ \E tempo_target \in {IF shift_due THEN ShiftedTarget(tp_tempo, draw)
                                   ELSE tp_tempo_target} :
                  /\ tp_tempo_target' = tempo_target
                  /\ tp_tempo' = Smoothed(tp_tempo, tempo_target)
           /\ tp_next_tempo_shift' = IF shift_due THEN now + wait ELSE tp_next_tempo_shift
           /\ tp_prev' = [tempo |-> tp_tempo, tempo_target |-> tp_tempo_target,
                          shifted |-> shift_due]
    /\ tp_clock' = tp_clock + TempoTurnMillis
    /\ tp_turn' = tp_turn + 1
    /\ UNCHANGED <<tp_intensity, tp_status>>
    /\ UNCHANGED notTempoVars

TempoNext ==
    \/ \E jitter \in TempoJitterChoices, wait \in ShiftWaitChoices : TempoSetup(jitter, wait)
    \/ \E draw \in TempoShiftChoices, wait \in ShiftWaitChoices : TempoTurn(draw, wait)

----------------------------------------------------------------------------
(* Claims on the tempo of run_background_01 *)

\* |a - b| of two magnitudes
MagDistance(a, b) == IF MagLess(a, b) THEN MagSub(b, a) ELSE MagSub(a, b)

\* n times a magnitude, n below 128
MagTimes(a, n) ==
    LET p4 == a[4] * n
        p3 == a[3] * n + p4 \div Limb
        p2 == a[2] * n + p3 \div Limb
        p1 == a[1] * n + p2 \div Limb
    IN  Magnitude(p1, p2 % Limb, p3 % Limb, p4 % Limb)

\* 2^-41: what the two roundings of line 1320 can take from or add to fifty
\* steps of a tempo below 128
RoundingSlack == BitPlace(72 - 41)

\* | 50 * (tempo - before) - (tempo_target - before) |, exactly
OffTwoPercent(before, tempo, tempo_target) ==
    MagDistance(MagTimes(MagDistance(tempo.mag, before.mag), 50),
                MagDistance(tempo_target.mag, before.mag))

\* C27: in every turn of the run_background_01 loop, for an intensity in
\* [0, 1], a tempo shift sets a target in [36, 72] BPM and a turn without a
\* shift keeps the target; the tempo moves toward the target by 2% of their
\* difference, as far as two float roundings allow, never past the target and
\* never onto a target it was not on; the tempo stays in [36, 72].
C27_TempoSmoothed ==
    tp_status = "loop" =>
        /\ ~FloatLess(tp_tempo, Whole(36)) /\ ~FloatLess(Whole(72), tp_tempo)
        /\ tp_turn > 0 =>
               /\ tp_prev.shifted =>
                      /\ ~FloatLess(tp_tempo_target, Whole(36))
                      /\ ~FloatLess(Whole(72), tp_tempo_target)
               /\ ~tp_prev.shifted => tp_tempo_target = tp_prev.tempo_target
               /\ ~MagLess(RoundingSlack,
                           OffTwoPercent(tp_prev.tempo, tp_tempo, tp_tempo_target))
               /\ FloatLess(tp_prev.tempo, tp_tempo_target) =>
                      ~FloatLess(tp_tempo, tp_prev.tempo) /\ FloatLess(tp_tempo, tp_tempo_target)
               /\ FloatLess(tp_tempo_target, tp_prev.tempo) =>
                      ~FloatLess(tp_prev.tempo, tp_tempo) /\ FloatLess(tp_tempo_target, tp_tempo)
               /\ tp_tempo_target = tp_prev.tempo => tp_tempo = tp_prev.tempo

\* a shift by +6 from above 66 BPM, which min(72.0, ...) holds at 72, and the
\* turn's step toward it
C27_Witness ==
    /\ tp_status = "loop"
    /\ tp_intensity = Whole(1)
    /\ tp_prev.shifted
    /\ FloatLess(Whole(66), tp_prev.tempo)
    /\ FloatLess(tp_prev.tempo_target, Whole(72))
    /\ tp_tempo_target = Whole(72)
    /\ FloatLess(tp_prev.tempo, tp_tempo)
    /\ FloatLess(tp_tempo, Whole(72))

----------------------------------------------------------------------------
(* Claims on the kit load_kit returns *)

\* C28: when load_kit has returned, through the single block or through the
\* batches, every instrument of the catalog has as many loaded layers as
\* catalog layers, in catalog order, each with a buffer of its own that was
\* allocated once; no layer is missing or doubled where a batch ends, and
\* every instrument of the kit has _rotation 0.
C28_KitMirrorsCatalog ==
    kit_status = "returned" =>
        /\ Len(kit_layers) = Len(kit_catalog)
        /\ \A i \in 1..Len(kit_catalog) :
               /\ Len(kit_layers[i]) = kit_catalog[i]
               /\ \A k \in 1..kit_catalog[i] : kit_layers[i][k].layer = k
        /\ \A i, j \in 1..Len(kit_layers) :
               \A k \in 1..Len(kit_layers[i]), l \in 1..Len(kit_layers[j]) :
                   kit_layers[i][k].buffer = kit_layers[j][l].buffer => (i = j /\ k = l)
        /\ KitBuffers = SeqRange(Flattened(kit_batches, 1))
        /\ Len(Flattened(kit_batches, 1)) = CatalogSize
        /\ kit_instruments = [i \in 1..Len(kit_catalog) |-> 0]

C28_Witness ==
    /\ kit_status = "returned"
    /\ kit_context = "Other"
    /\ kit_at = <<>>
    /\ kit_catalog = <<1, 24, 25>>
    /\ Len(kit_batches) = 4
    /\ kit_layers[2][23] = [layer |-> 23, buffer |-> 24]
    /\ kit_layers[2][24] = [layer |-> 24, buffer |-> 25]
    /\ kit_layers[3][25] = [layer |-> 25, buffer |-> 50]

----------------------------------------------------------------------------
(* Claims on schedule_pattern *)

\* the k-th value a list gives when it is gone round again and again
Round(values, k) == values[((k - 1) % Len(values)) + 1]

\* the window of the call on the time line of its placements
WindowStart == FloatAdd(sp_base_time, sp_start_time)

WindowEnd == FloatAdd(sp_base_time, FloatAdd(sp_start_time, sp_duration))

\* the notes placed so far: where and what
C29_PlacedInWindow ==
    sp_status \in {"placing", "returned"} =>
        /\ \A k \in 1..Len(sp_synth_calls) :
               LET time == sp_synth_calls[k].time
               IN  /\ ~FloatLess(time, WindowStart)
                   /\ FloatLess(time, WindowEnd)
                   /\ k > 1 => FloatLess(sp_synth_calls[k - 1].time, time)
                   /\ time = FloatAdd(sp_base_time,
                                      PatternOffset(sp_start_time, sp_durs, k - 1))
                   /\ sp_synth_calls[k].note = Round(sp_notes, k)
                   /\ sp_synth_calls[k].dyn = Round(sp_dynamics, k)
                   /\ sp_synth_calls[k].amp = Round(sp_amps, k)
        /\ sp_status = "returned" =>
               sp_result = <<FloatAdd(FloatAdd(sp_start_time, sp_duration), sp_rel)>>

\* C29: for a finite duration and a non-empty durs list of entries > 0,
\* schedule_pattern returns after placing finitely many notes, at strictly
\* increasing times within [start_time, start_time + duration) of its time
\* base, each list gone round on its own, and it returns start_time +
\* duration + rel.
C29_PatternTerminates ==
    /\ [](C29_PlacedInWindow)
    /\ <>(sp_status = "returned")

----------------------------------------------------------------------------
(* The note walk of run_background_01, piano_sampler.py:1238-1293,         *)
(* 1322-1335 and 1379-1392, with _build_scale_notes (955-966) and          *)
(* _build_scale_chord (980-984)                                            *)

MaxBackgroundTurns == 9

BACKGROUND_01_SCALE_OFFSETS == <<0, 2, 3, 5, 7, 9, 10>>

BACKGROUND_01_ROOT == 62

\* low=40, high=92 of the call at lines 1238-1243
ScaleLow == 40

ScaleHigh == 92

\* --intensity, in percent; 150 is refused
BackgroundIntensityChoices == {50, 150}

\* rng.choice([8, 12, 16]), lines 1287 and 1324
PatternStepsChoices == {8, 12, 16}

\* rng.randrange(len(pattern)), lines 1291 and 1328
ShiftChoices == {0, 3}

\* rng.choice([-2, -1, 0, 1, 2]), line 1333: the two widest
RootOffsetChoices == {0 - 2, 2}

\* the position rng.choice draws in a list of n elements: the first or the last
PickChoices == {"first", "last"}

Picked(values, pick) == IF pick = "first" THEN values[1] ELSE values[Len(values)]

\* lines 955-966; the result is <<>> with ok FALSE when low > high (ValueError)
build_scale_notes(root, scale_offsets, low, high) ==
    IF low > high THEN [ok |-> FALSE, notes |-> <<>>]
    ELSE LET root_pc == root % 12
             pitch_classes == {(root_pc + scale_offsets[k]) % 12 : k \in 1..Len(scale_offsets)}
         IN  [ok |-> TRUE,
              notes |-> SelectSeq([k \in 1..(high + 1 - low) |-> low + k - 1],
                                  LAMBDA note : note % 12 \in pitch_classes)]

\* lines 981-983: the root the chord is built on (0-based, as in the source)
SafeRoot(scale_notes, root_index) ==
    LET max_root == Max2(0, Len(scale_notes) - 6 - 1)
    IN  Max2(0, Min2(root_index, max_root))

\* line 984: whether every scale_notes[safe_root + interval] is in range
ChordInRange(scale_notes, root_index) ==
    SafeRoot(scale_notes, root_index) + 6 < Len(scale_notes)

\* lines 980-984, when the lookups are in range
build_scale_chord(scale_notes, root_index) ==
    LET chord_intervals == <<0, 2, 4, 6>>
        safe_root == SafeRoot(scale_notes, root_index)
    IN  [k \in 1..4 |-> scale_notes[safe_root + chord_intervals[k] + 1]]

UnclampedRoot(chord_root_index, scale_notes) == chord_root_index

\* line 1334: max(0, min(chord_root_index, len(scale_notes) - 7))
ClampedRoot(chord_root_index, scale_notes) ==
    Max2(0, Min2(chord_root_index, Len(scale_notes) - 7))

\* line 1288: max(2, int(pattern_steps * (0.25 + intensity * 0.35)))
SetupPulses(pattern_steps, intensity) ==
    Max2(2, (pattern_steps * (2500 + intensity * 35)) \div 10000)

\* line 1325: max(2, int(pattern_steps * (0.25 + energy * 0.4)))
PhrasePulses(pattern_steps, energy) ==
    Max2(2, (pattern_steps * (2500 + energy * 40)) \div 10000)

\* lines 1289-1292 and 1326-1329: the pattern, rotated when it is not empty;
\* randrange(len(pattern)) is the draw reduced to the length of the pattern
RotatedPattern(pulses, steps, shift) ==
    LET pattern == euclidean_pattern(pulses, steps)
    IN  IF pattern # <<>> THEN Rotated(pattern, shift % Len(pattern)) ELSE pattern

\* list.index: the first position of the value, 0-based; it raises ValueError
\* when the value is not in the list
InList(values, value) == \E k \in 1..Len(values) : values[k] = value

IndexIn(values, value) ==
    (CHOOSE k \in 1..Len(values) :
        /\ values[k] = value
        /\ \A j \in 1..(k - 1) : values[j] # value) - 1

\* lines 1388-1390: scale_notes[max(0, i - 4) : min(len(scale_notes), i + 5)]
NoteWindow(scale_notes, scale_index) ==
    SubSeq(scale_notes, Max2(0, scale_index - 4) + 1, Min2(Len(scale_notes), scale_index + 5))

\* the draws of one turn of the loop; an event that is not due is <<>>.
\* A phrase draws rng.uniform(-0.18, 0.18) (in percent), rng.choice([8, 12, 16])
\* and rng.randrange(len(pattern))
NotDue == <<>>

PhraseChoices ==
    {<<[energy_draw |-> 0 - 18, pattern_steps |-> 8, shift |-> 0]>>,
     <<[energy_draw |-> 18, pattern_steps |-> 12, shift |-> 3]>>,
     <<[energy_draw |-> 18, pattern_steps |-> 16, shift |-> 0]>>}

ChordChangeChoices == {<<o>> : o \in RootOffsetChoices}

\* plays: play_step's second condition, rng.random() < 0.6 + intensity * 0.3;
\* use_chord: rng.random() < 0.65 + energy * 0.2
StepChoices ==
    {<<[plays |-> FALSE, use_chord |-> FALSE, pick |-> "first"]>>}
        \cup {<<[plays |-> TRUE, use_chord |-> u, pick |-> p]>> : u \in BOOLEAN, p \in PickChoices}

\* what is due in one turn: one of the three, or all three at once
TurnChoices ==
    {[phrase |-> p, chord_change |-> NotDue, step |-> NotDue] : p \in PhraseChoices}
        \cup {[phrase |-> NotDue, chord_change |-> c, step |-> NotDue] : c \in ChordChangeChoices}
        \cup {[phrase |-> NotDue, chord_change |-> NotDue, step |-> t] : t \in StepChoices}
        \cup {[phrase |-> <<[energy_draw |-> 0 - 18, pattern_steps |-> 8, shift |-> 0]>>,
               chord_change |-> <<2>>,
               step |-> <<[plays |-> TRUE, use_chord |-> FALSE, pick |-> "last"]>>],
              [phrase |-> <<[energy_draw |-> 18, pattern_steps |-> 16, shift |-> 0]>>,
               chord_change |-> <<0 - 2>>,
               step |-> <<[plays |-> TRUE, use_chord |-> TRUE, pick |-> "first"]>>]}

BackgroundInit ==
    /\ bg_intensity \in BackgroundIntensityChoices
    /\ bg_scale_notes = <<>>
    /\ bg_chord_root_index = 0
    /\ bg_chord_notes = <<>>
    /\ bg_last_note = 0
    /\ bg_energy = 0
    /\ bg_pattern = <<>>
    /\ bg_step_index = 0
    /\ bg_turn = 0
    /\ bg_status = "start"

BackgroundIdle ==
    /\ bg_intensity = 0
    /\ bg_scale_notes = <<>>
    /\ bg_chord_root_index = 0
    /\ bg_chord_notes = <<>>
    /\ bg_last_note = 0
    /\ bg_energy = 0
    /\ bg_pattern = <<>>
    /\ bg_step_index = 0
    /\ bg_turn = 0
    /\ bg_status = "idle"

\* lines 1187-1189: the intensity is refused
BackgroundRefuse ==
    /\ bg_status = "start"
    /\ ~(0 <= bg_intensity /\ bg_intensity <= 100)
    /\ bg_status' = "refused"
    /\ UNCHANGED <<bg_intensity, bg_scale_notes, bg_chord_root_index, bg_chord_notes,
                   bg_last_note, bg_energy, bg_pattern, bg_step_index, bg_turn>>
    /\ UNCHANGED notBackgroundVars

\* lines 1238-1293: the scale, the first chord, the first note and the first
\* pattern; root_pick is the draw of rng.randint(0, len(scale_notes) - 7)
BackgroundSetup(root_pick, note_pick, pattern_steps, shift) ==
    /\ bg_status = "start"
    /\ 0 <= bg_intensity /\ bg_intensity <= 100
    /\ LET built == build_scale_notes(BACKGROUND_01_ROOT, BACKGROUND_01_SCALE_OFFSETS,
                                      ScaleLow, ScaleHigh)
           scale_notes == built.notes
           chord_root_index == IF root_pick = "first" THEN 0 ELSE Len(scale_notes) - 7
       IN  IF ~built.ok \/ Len(scale_notes) < 8
           THEN /\ bg_status' = "too_few_notes"
                /\ bg_scale_notes' = scale_notes
                /\ UNCHANGED <<bg_chord_root_index, bg_chord_notes, bg_last_note, bg_energy,
                               bg_pattern, bg_step_index>>
           ELSE IF ~ChordInRange(scale_notes, chord_root_index)
           THEN /\ bg_status' = "failed"
                /\ bg_scale_notes' = scale_notes
                /\ bg_chord_root_index' = chord_root_index
                /\ UNCHANGED <<bg_chord_notes, bg_last_note, bg_energy, bg_pattern,
                               bg_step_index>>
           ELSE /\ bg_status' = "loop"
                /\ bg_scale_notes' = scale_notes
                /\ bg_chord_root_index' = chord_root_index
                /\ bg_chord_notes' = build_scale_chord(scale_notes, chord_root_index)
                /\ bg_last_note' = Picked(build_scale_chord(scale_notes, chord_root_index),
                                          note_pick)
                /\ bg_energy' = bg_intensity
                /\ bg_pattern' = RotatedPattern(SetupPulses(pattern_steps, bg_intensity),
                                                pattern_steps, shift)
                /\ bg_step_index' = 0
    /\ UNCHANGED <<bg_intensity, bg_turn>>
    /\ UNCHANGED notBackgroundVars

\* one turn of the loop, lines 1322-1335 and 1379-1392: the phrase, the chord
\* change and the step, each when it is due, in this order
BackgroundTurn(phrase, chord_change, step) ==
    /\ bg_status = "loop"
    /\ bg_turn < MaxBackgroundTurns
    /\ LET \* lines 1322-1331
           energy == IF phrase = <<>> THEN bg_energy
                     ELSE Max2(0, Min2(100, bg_energy + phrase[1].energy_draw))
           pattern == IF phrase = <<>> THEN bg_pattern
                      ELSE RotatedPattern(PhrasePulses(phrase[1].pattern_steps, energy),
                                          phrase[1].pattern_steps, phrase[1].shift)
           phrase_index == IF phrase = <<>> THEN bg_step_index ELSE 0
           \* lines 1332-1335
           chord_root_index ==
               IF chord_change = <<>> THEN bg_chord_root_index
               ELSE ClampedRoot(bg_chord_root_index + chord_change[1], bg_scale_notes)
           chord_raises == chord_change # <<>>
                           /\ ~ChordInRange(bg_scale_notes, chord_root_index)
           chord_notes == IF chord_change = <<>> \/ chord_raises THEN bg_chord_notes
                          ELSE build_scale_chord(bg_scale_notes, chord_root_index)
           \* lines 1379-1392
           step_raises == step # <<>> /\ pattern # <<>>
                          /\ ~(0 <= phrase_index /\ phrase_index < Len(pattern))
           play_step == step # <<>> /\ ~step_raises /\ pattern # <<>>
                        /\ pattern[phrase_index + 1] # 0
           step_index == IF step = <<>> \/ step_raises THEN phrase_index
                         ELSE (phrase_index + 1) % Max2(1, Len(pattern))
           sounds == play_step /\ step[1].plays
           index_raises == sounds /\ ~step[1].use_chord
                           /\ ~InList(bg_scale_notes, bg_last_note)
           window == NoteWindow(bg_scale_notes, IndexIn(bg_scale_notes, bg_last_note))
           last_note == IF ~sounds \/ index_raises THEN bg_last_note
                        ELSE IF step[1].use_chord THEN Picked(chord_notes, step[1].pick)
                        ELSE Picked(IF window # <<>> THEN window ELSE bg_scale_notes,
                                    step[1].pick)
       IN  /\ bg_energy' = energy
           /\ bg_pattern' = pattern
           /\ bg_chord_root_index' = chord_root_index
           /\ bg_chord_notes' = chord_notes
           /\ bg_step_index' = IF chord_raises THEN phrase_index ELSE step_index
           /\ bg_last_note' = IF chord_raises THEN bg_last_note ELSE last_note
           /\ bg_status' = IF chord_raises \/ step_raises \/ index_raises
                           THEN "failed" ELSE "loop"
    /\ bg_turn' = bg_turn + 1
    /\ UNCHANGED <<bg_intensity, bg_scale_notes>>
    /\ UNCHANGED notBackgroundVars

BackgroundNext ==
    \/ BackgroundRefuse
    \/ \E root_pick \in PickChoices, note_pick \in PickChoices,
          pattern_steps \in PatternStepsChoices, shift \in ShiftChoices :
            BackgroundSetup(root_pick, note_pick, pattern_steps, shift)
    \/ \E turn \in TurnChoices : BackgroundTurn(turn.phrase, turn.chord_change, turn.step)

----------------------------------------------------------------------------
(* Claims on the note walk of run_background_01 *)

\* C30: while the loop of run_background_01 runs, step_index is a position of
\* the pattern, chord_root_index lies in 0 .. len(scale_notes) - 7, every chord
\* note and last_note are notes of the scale, and no lookup of the loop raises
C30_WalkInRange ==
    /\ bg_status # "failed"
    /\ bg_status = "loop" =>
        /\ 0 <= bg_step_index /\ bg_step_index < Len(bg_pattern)
        /\ 0 <= bg_chord_root_index
        /\ bg_chord_root_index <= Len(bg_scale_notes) - 7
        /\ \A k \in 1..Len(bg_chord_notes) : InList(bg_scale_notes, bg_chord_notes[k])
        /\ Len(bg_chord_notes) = 4
        /\ InList(bg_scale_notes, bg_last_note)

\* late in a run that began with the chord at the top of the scale: a chord
\* change has moved the chord down, a phrase has moved the energy and made the
\* pattern 8 steps long, and the steps have walked the last note to more than
\* an octave under the chord
C30_Witness ==
    /\ bg_status = "loop"
    /\ bg_turn = MaxBackgroundTurns
    /\ bg_energy # bg_intensity
    /\ Len(bg_pattern) = 8
    /\ bg_step_index = 3
    /\ bg_chord_root_index = Len(bg_scale_notes) - 9
    /\ bg_last_note < bg_chord_notes[1] - 12

----------------------------------------------------------------------------
(* Specifications: one per component, the other components idle *)

LayerOnly ==
    /\ LayerInit
    /\ ConvIdle /\ PianoIdle /\ DrumCsvIdle /\ BuildIdle /\ LookupIdle
    /\ SchedIdle /\ PatternIdle /\ KitIdle /\ ProgramIdle /\ PlayIdle
    /\ MappingIdle /\ TriggerIdle /\ EuclidIdle /\ TempoIdle /\ BackgroundIdle

SpecLayer == LayerOnly /\ [][LayerNext]_vars

TicksOnly ==
    /\ ConvInit
    /\ LayerIdle /\ PianoIdle /\ DrumCsvIdle /\ BuildIdle /\ LookupIdle
    /\ SchedIdle /\ PatternIdle /\ KitIdle /\ ProgramIdle /\ PlayIdle
    /\ MappingIdle /\ TriggerIdle /\ EuclidIdle /\ TempoIdle /\ BackgroundIdle

SpecTicks == TicksOnly /\ [][Convert]_vars

PianoOnly ==
    /\ PianoInit
    /\ LayerIdle /\ ConvIdle /\ DrumCsvIdle /\ BuildIdle /\ LookupIdle
    /\ SchedIdle /\ PatternIdle /\ KitIdle /\ ProgramIdle /\ PlayIdle
    /\ MappingIdle /\ TriggerIdle /\ EuclidIdle /\ TempoIdle /\ BackgroundIdle

SpecPiano == PianoOnly /\ [][PianoNext]_vars

DrumCsvOnly ==
    /\ DrumCsvInit
    /\ LayerIdle /\ ConvIdle /\ PianoIdle /\ BuildIdle /\ LookupIdle
    /\ SchedIdle /\ PatternIdle /\ KitIdle /\ ProgramIdle /\ PlayIdle
    /\ MappingIdle /\ TriggerIdle /\ EuclidIdle /\ TempoIdle /\ BackgroundIdle

SpecDrumCsv == DrumCsvOnly /\ [][DrumCsvNext]_vars

BuildOnly ==
    /\ BuildInit
    /\ LayerIdle /\ ConvIdle /\ PianoIdle /\ DrumCsvIdle /\ LookupIdle
    /\ SchedIdle /\ PatternIdle /\ KitIdle /\ ProgramIdle /\ PlayIdle
    /\ MappingIdle /\ TriggerIdle /\ EuclidIdle /\ TempoIdle /\ BackgroundIdle

SpecBuild == BuildOnly /\ [][BuildEvents]_vars

LookupOnly ==
    /\ LookupInit
    /\ LayerIdle /\ ConvIdle /\ PianoIdle /\ DrumCsvIdle /\ BuildIdle
    /\ SchedIdle /\ PatternIdle /\ KitIdle /\ ProgramIdle /\ PlayIdle
    /\ MappingIdle /\ TriggerIdle /\ EuclidIdle /\ TempoIdle /\ BackgroundIdle

SpecLookup == LookupOnly /\ [][LookupNext]_vars

SchedOnly ==
    /\ SchedInit
    /\ LayerIdle /\ ConvIdle /\ PianoIdle /\ DrumCsvIdle /\ BuildIdle
    /\ LookupIdle /\ PatternIdle /\ KitIdle /\ ProgramIdle /\ PlayIdle
    /\ MappingIdle /\ TriggerIdle /\ EuclidIdle /\ TempoIdle /\ BackgroundIdle

SpecSched == SchedOnly /\ [][SchedNext]_vars

PatternOnly ==
    /\ PatternInit
    /\ LayerIdle /\ ConvIdle /\ PianoIdle /\ DrumCsvIdle /\ BuildIdle
    /\ LookupIdle /\ SchedIdle /\ KitIdle /\ ProgramIdle /\ PlayIdle
    /\ MappingIdle /\ TriggerIdle /\ EuclidIdle /\ TempoIdle /\ BackgroundIdle

SpecPattern == PatternOnly /\ [][PatternNext]_vars

KitOnly ==
    /\ KitInit
    /\ LayerIdle /\ ConvIdle /\ PianoIdle /\ DrumCsvIdle /\ BuildIdle
    /\ LookupIdle /\ SchedIdle /\ PatternIdle /\ ProgramIdle /\ PlayIdle
    /\ MappingIdle /\ TriggerIdle /\ EuclidIdle /\ TempoIdle /\ BackgroundIdle

SpecKit == KitOnly /\ [][KitNext]_vars

ProgramOnly ==
    /\ ProgramInit
    /\ LayerIdle /\ ConvIdle /\ PianoIdle /\ DrumCsvIdle /\ BuildIdle
    /\ LookupIdle /\ SchedIdle /\ PatternIdle /\ KitIdle /\ PlayIdle
    /\ MappingIdle /\ TriggerIdle /\ EuclidIdle /\ TempoIdle /\ BackgroundIdle

SpecProgram == ProgramOnly /\ [][ProgramNext]_vars

PlayOnly ==
    /\ PlayInit
    /\ LayerIdle /\ ConvIdle /\ PianoIdle /\ DrumCsvIdle /\ BuildIdle
    /\ LookupIdle /\ SchedIdle /\ PatternIdle /\ KitIdle /\ ProgramIdle
    /\ MappingIdle /\ TriggerIdle /\ EuclidIdle /\ TempoIdle /\ BackgroundIdle

SpecPlay == PlayOnly /\ [][PlayNext]_vars

MappingOnly ==
    /\ MappingInit
    /\ LayerIdle /\ ConvIdle /\ PianoIdle /\ DrumCsvIdle /\ BuildIdle
    /\ LookupIdle /\ SchedIdle /\ PatternIdle /\ KitIdle /\ ProgramIdle
    /\ PlayIdle /\ TriggerIdle /\ EuclidIdle /\ TempoIdle /\ BackgroundIdle

SpecMapping == MappingOnly /\ [][ApplyOverrides]_vars

TriggerOnly ==
    /\ TriggerInit
    /\ LayerIdle /\ ConvIdle /\ PianoIdle /\ DrumCsvIdle /\ BuildIdle
    /\ LookupIdle /\ SchedIdle /\ PatternIdle /\ KitIdle /\ ProgramIdle
    /\ PlayIdle /\ MappingIdle /\ EuclidIdle /\ TempoIdle /\ BackgroundIdle

SpecTrigger == TriggerOnly /\ [][TriggerNext]_vars

EuclidOnly ==
    /\ EuclidInit
    /\ LayerIdle /\ ConvIdle /\ PianoIdle /\ DrumCsvIdle /\ BuildIdle
    /\ LookupIdle /\ SchedIdle /\ PatternIdle /\ KitIdle /\ ProgramIdle
    /\ PlayIdle /\ MappingIdle /\ TriggerIdle /\ TempoIdle /\ BackgroundIdle

SpecEuclid == EuclidOnly /\ [][EuclidNext]_vars

TempoOnly ==
    /\ TempoInit
    /\ LayerIdle /\ ConvIdle /\ PianoIdle /\ DrumCsvIdle /\ BuildIdle
    /\ LookupIdle /\ SchedIdle /\ PatternIdle /\ KitIdle /\ ProgramIdle
    /\ PlayIdle /\ MappingIdle /\ TriggerIdle /\ EuclidIdle /\ BackgroundIdle

SpecTempo == TempoOnly /\ [][TempoNext]_vars

BackgroundOnly ==
    /\ BackgroundInit
    /\ LayerIdle /\ ConvIdle /\ PianoIdle /\ DrumCsvIdle /\ BuildIdle
    /\ LookupIdle /\ SchedIdle /\ PatternIdle /\ KitIdle /\ ProgramIdle
    /\ PlayIdle /\ MappingIdle /\ TriggerIdle /\ EuclidIdle /\ TempoIdle

SpecBackground == BackgroundOnly /\ [][BackgroundNext]_vars

\* one call of schedule_note_events or one call of schedule_pattern
SchedulersOnly ==
    /\ \/ SchedInit /\ PatternIdle
       \/ SchedIdle /\ PatternInit
    /\ LayerIdle /\ ConvIdle /\ PianoIdle /\ DrumCsvIdle /\ BuildIdle
    /\ LookupIdle /\ KitIdle /\ ProgramIdle /\ PlayIdle /\ MappingIdle
    /\ TriggerIdle /\ EuclidIdle /\ TempoIdle /\ BackgroundIdle

SpecSchedulers == SchedulersOnly /\ [][SchedulersNext]_vars

\* schedule_pattern runs to its end: nothing but the loop condition holds it
SpecPatternFair == PatternOnly /\ [][PatternNext]_vars /\ WF_vars(PatternNext)

====
